---- MODULE Spec2Model ----
(***************************************************************************)
(* TCP chat server (IT4062 ChatProject): account store, session registry, *)
(* friendship store, private-message store, connection workers and the    *)
(* verb handlers, as a state machine.                                     *)
(*                                                                         *)
(* Strings are sequences of one-character strings, so that the length     *)
(* checks of the validators and the field widths of the sscanf formats    *)
(* act on them as they do in the C code.                                  *)
(***************************************************************************)
EXTENDS Integers, Sequences, FiniteSets, TLC

\* ------------------------------------------------------------------ bounds
\* Socket handles the accept loop can hand to a worker: 1..NumConns.
NumConns == 2
\* The wall clock (time(NULL)) runs over 0..MaxTime.
MaxTime == 2
\* Configured idle timeout of the registry, in clock ticks (server argv[2]).
SessionTimeout == 2
\* Tokens issued by generate_token in one run.
MaxTokens == 3
\* Lines the users file may hold.
MaxUsers == 3
\* Edges the friendship file may hold.
MaxEdges == 3
\* Private messages sent in one run.
MaxMsgs == 1

\* ------------------------------------------------------- program constants
ACC_USERNAME_MAX == 32
ACC_PASSWORD_MAX == 64
ACC_EMAIL_MAX == 96
MAX_SESSIONS == 1000

ACC_OK == "ACC_OK"
ACC_ERR_IO == "ACC_ERR_IO"
ACC_ERR_EXISTS == "ACC_ERR_EXISTS"
ACC_ERR_INVALID == "ACC_ERR_INVALID"
ACC_ERR_NOT_FOUND == "ACC_ERR_NOT_FOUND"
ACC_ERR_BAD_PASSWORD == "ACC_ERR_BAD_PASSWORD"
ACC_ERR_INACTIVE == "ACC_ERR_INACTIVE"

SESS_OK == "SESS_OK"
SESS_ERR_FULL == "SESS_ERR_FULL"
SESS_ERR_NOT_FOUND == "SESS_ERR_NOT_FOUND"
SESS_ERR_EXPIRED == "SESS_ERR_EXPIRED"
SESS_ERR_ALREADY == "SESS_ERR_ALREADY"

\* ------------------------------------------------------------------ strings
Rep(ch, n) == [i \in 1..n |-> ch]

Max(a, b) == IF a > b THEN a ELSE b

Digit == <<"0", "1", "2", "3", "4", "5", "6", "7", "8", "9">>
HexDigit == Digit \o <<"a", "b", "c", "d", "e", "f">>
Lower == <<"a", "b", "c", "d", "e", "f", "g", "h", "i", "j", "k", "l", "m",
           "n", "o", "p", "q", "r", "s", "t", "u", "v", "w", "x", "y", "z">>
Upper == <<"A", "B", "C", "D", "E", "F", "G", "H", "I", "J", "K", "L", "M",
           "N", "O", "P", "Q", "R", "S", "T", "U", "V", "W", "X", "Y", "Z">>

Range(s) == {s[i] : i \in 1..Len(s)}

\* isalnum(3) in the C locale.
isalnum(c) == c \in Range(Digit) \cup Range(Lower) \cup Range(Upper)

\* The character codes of the characters the model's strings are made of.
Ord(c) ==
    IF c \in Range(Digit) THEN 47 + CHOOSE i \in 1..10 : Digit[i] = c
    ELSE IF c \in Range(Lower) THEN 96 + CHOOSE i \in 1..26 : Lower[i] = c
    ELSE IF c \in Range(Upper) THEN 64 + CHOOSE i \in 1..26 : Upper[i] = c
    ELSE CASE c = " " -> 32 [] c = "." -> 46 [] c = ":" -> 58 [] c = "@" -> 64
           [] c = "_" -> 95 [] c = "|" -> 124 [] c = "\n" -> 10 [] c = "=" -> 61

\* printf("%d") of a non-negative int.
RECURSIVE FormatInt(_)
FormatInt(n) == IF n < 10 THEN <<Digit[n + 1]>>
                ELSE FormatInt(n \div 10) \o <<Digit[(n % 10) + 1]>>

\* ------------------------------------------------------------------- sscanf
\* Number of characters from position i that "%w[^|]" consumes.
RECURSIVE RunLen(_, _, _)
RunLen(s, i, w) == IF i > Len(s) \/ w = 0 \/ s[i] = "|" THEN 0
                   ELSE 1 + RunLen(s, i + 1, w - 1)

\* Number of decimal digits from position i.
RECURSIVE DigitsLen(_, _)
DigitsLen(s, i) == IF i > Len(s) \/ s[i] \notin Range(Digit) THEN 0
                   ELSE 1 + DigitsLen(s, i + 1)

RECURSIVE DigitsVal(_, _, _)
DigitsVal(s, i, n) == IF n = 0 THEN 0
                      ELSE DigitsVal(s, i, n - 1) * 10 + (Ord(s[i + n - 1]) - 48)

\* "%d" at position i (the model writes no signs and no leading blanks).
ScanInt(s, i) == LET n == DigitsLen(s, i)
                 IN  [ok |-> n > 0, val |-> DigitsVal(s, i, n), next |-> i + n]

\* "%w[^|]" at position i: at least one and at most w characters other than '|'.
ScanSet(s, i, w) == LET n == RunLen(s, i, w)
                    IN  [ok |-> n > 0, val |-> SubSeq(s, i, i + n - 1), next |-> i + n]

\* A literal '|' of the format at position i.
MatchBar(s, i) == i <= Len(s) /\ s[i] = "|"

\* The conversions of the format from the k-th on, made from position i of
\* the line: the values assigned, in order.  widths[k] is the width of a
\* "%w[^|]" conversion and 0 for "%d"; a '|' stands between two conversions
\* and the scan stops at the first conversion or '|' that does not match.
RECURSIVE ScanFrom(_, _, _, _)
ScanFrom(line, widths, k, i) ==
    LET f == IF widths[k] = 0 THEN ScanInt(line, i) ELSE ScanSet(line, i, widths[k])
    IN  IF ~f.ok THEN <<>>
        ELSE IF k = Len(widths) \/ ~MatchBar(line, f.next) THEN <<f.val>>
        ELSE <<f.val>> \o ScanFrom(line, widths, k + 1, f.next + 1)

\* The value of the k-th conversion, def where it was not made (the code
\* reads the fields only after all six were).
Field(v, k, def) == IF k <= Len(v) THEN v[k] ELSE def

\* sscanf(line, "%d|%wu[^|]|%ws[^|]|%wh[^|]|%we[^|]|%d", ...): n is the number
\* of conversions made.
sscanf_user(line, wu, ws, wh, we) ==
    LET v == ScanFrom(line, <<0, wu, ws, wh, we, 0>>, 1, 1)
    IN  [n |-> Len(v), id |-> Field(v, 1, 0), username |-> Field(v, 2, <<>>),
         salt |-> Field(v, 3, <<>>), hash |-> Field(v, 4, <<>>),
         email |-> Field(v, 5, <<>>), active |-> Field(v, 6, 0)]

\* fprintf(f, "%d|%s|%s|%s|%s|%d\n", ...)
FormatUserLine(id, username, salt, hash, email, active) ==
    FormatInt(id) \o <<"|">> \o username \o <<"|">> \o salt \o <<"|">> \o hash
        \o <<"|">> \o email \o <<"|">> \o FormatInt(active) \o <<"\n">>

\* ------------------------------------------------------------ accounts.c
\* Inputs of the handlers: usernames, passwords and e-mail addresses a
\* client may send.  UserLong and EmailLong have the largest length the
\* validators accept; EmailBar holds the record separator.
UserA == <<"a", "n", "n">>
UserB == <<"b", "o", "b">>
UserLong == Rep("x", ACC_USERNAME_MAX)
UserTooLong == Rep("x", ACC_USERNAME_MAX + 1)
PwGood == <<"s", "e", "c", "r", "e", "t">>
PwOther == <<"s", "e", "c", "r", "e", "u">>
EmailShort == <<"a", "@", "b", ".", "c">>
EmailLong == <<"a", "@", "b", ".">> \o Rep("c", ACC_EMAIL_MAX - 4)
EmailBar == <<"a", "@", "b", ".", "|">>
\* Values random_hex(salt, 33) can return.
Salt0 == Rep("0", 32)
Salts == {Salt0, Rep("7", 32)}

is_valid_username(s) ==
    /\ Len(s) >= 3
    /\ Len(s) <= ACC_USERNAME_MAX
    /\ \A i \in 1..Len(s) : isalnum(s[i]) \/ s[i] = "_"

is_valid_password(s) ==
    /\ Len(s) >= 6
    /\ Len(s) <= ACC_PASSWORD_MAX
    /\ \A i \in 1..Len(s) : s[i] # " "

\* strchr from position `from`: the first index of ch, 0 when there is none.
IndexOf(s, ch, from) ==
    IF \E i \in from..Len(s) : s[i] = ch
    THEN CHOOSE i \in from..Len(s) : s[i] = ch /\ \A j \in from..(i - 1) : s[j] # ch
    ELSE 0

is_valid_email(s) ==
    LET at == IndexOf(s, "@", 1)
        dot == IF at = 0 THEN 0 ELSE IndexOf(s, ".", at + 1)
    IN  /\ Len(s) >= 5
        /\ Len(s) <= ACC_EMAIL_MAX
        /\ at > 1
        /\ dot > at + 1
        /\ dot < Len(s)
        /\ \A i \in 1..Len(s) : s[i] # " "

\* A 64-bit unsigned value is four 16-bit limbs, least significant first.
RECURSIVE BitXor(_, _)
BitXor(a, b) == IF a = 0 THEN b
                ELSE IF b = 0 THEN a
                ELSE ((a + b) % 2) + 2 * BitXor(a \div 2, b \div 2)

\* h *= 1099511628211ULL (2^40 + 435), modulo 2^64.
MulPrime(h) ==
    LET t1 == h[1] * 435
        t2 == h[2] * 435 + (t1 \div 65536)
        t3 == h[3] * 435 + (t2 \div 65536)
        t4 == h[4] * 435 + (t3 \div 65536)
        u1 == h[1] * 256
        u2 == h[2] * 256 + (u1 \div 65536)
        s3 == (t3 % 65536) + (u1 % 65536)
        s4 == (t4 % 65536) + (u2 % 65536) + (s3 \div 65536)
    IN  <<t1 % 65536, t2 % 65536, s3 % 65536, s4 % 65536>>

\* One round of the loop: h ^= c; h *= prime.
fnv_round(h, c) == MulPrime(<<BitXor(h[1], Ord(c)), h[2], h[3], h[4]>>)

\* The loop of fnv1a64 from character i on, h being the value so far.  (The
\* test on g is always false: it makes TLC compute g before it goes on.)
RECURSIVE fnv1a64_from(_, _, _)
fnv1a64_from(h, s, i) ==
    IF i > Len(s) THEN h
    ELSE LET g == fnv_round(h, s[i])
         IN  IF g[1] < 0 THEN g ELSE fnv1a64_from(g, s, i + 1)

\* h = 1469598103934665603ULL = 0xcbf29ce484222325
fnv1a64(s) == fnv1a64_from(<<8997, 33826, 40164, 52210>>, s, 1)

Hex4(v) == <<HexDigit[(v \div 4096) + 1], HexDigit[((v \div 256) % 16) + 1],
             HexDigit[((v \div 16) % 16) + 1], HexDigit[(v % 16) + 1]>>

hex64(v) == Hex4(v[4]) \o Hex4(v[3]) \o Hex4(v[2]) \o Hex4(v[1])

\* snprintf(buf, 256, "%s:%s", salt, password); hex64(fnv1a64(buf), out_hash)
HashOf(salt, password) ==
    LET full == salt \o <<":">> \o password
        buf == IF Len(full) > 255 THEN SubSeq(full, 1, 255) ELSE full
    IN  hex64(fnv1a64(buf))

\* The hashes of the inputs above, computed once.
HashTable == [s \in Salts, p \in {PwGood, PwOther} |-> HashOf(s, p)]

compute_password_hash(salt, password) ==
    IF <<salt, password>> \in DOMAIN HashTable THEN HashTable[salt, password]
    ELSE HashOf(salt, password)

\* The lines accounts_register can write for the inputs above, and their
\* scans, computed once.
KnownLines ==
    {FormatUserLine(id, u, s, HashTable[s, PwGood], e, 1) :
        id \in 1..MaxUsers, u \in {UserA, UserB, UserLong}, s \in Salts,
        e \in {EmailShort, EmailLong, EmailBar}}

AccScanTable == [l \in KnownLines |-> sscanf_user(l, 31, 63, 31, 95)]

\* The record scan of accounts.c (every line fits fgets(line, 512)).
AccScan(line) ==
    IF line \in KnownLines THEN AccScanTable[line]
    ELSE sscanf_user(line, 31, 63, 31, 95)

\* The least index of a set of line or slot indexes, 0 for the empty set.
First(D) == IF D = {} THEN 0 ELSE CHOOSE i \in D : \A j \in D : i <= j

AccHasName(username, line) ==
    LET r == AccScan(line) IN r.n = 6 /\ r.username = username

AccHasId(user_id, line) ==
    LET r == AccScan(line) IN r.n = 6 /\ r.id = user_id

RECURSIVE MaxId(_, _)
MaxId(db, i) ==
    IF i > Len(db) THEN 0
    ELSE LET r == AccScan(db[i])
         IN  Max(IF r.n = 6 THEN r.id ELSE 0, MaxId(db, i + 1))

read_next_id_unlocked(db) == MaxId(db, 1) + 1

\* accounts_register under g_accounts_mutex: [rc, user_id, db].
accounts_register(db, username, password, email, salt) ==
    IF ~(is_valid_username(username) /\ is_valid_password(password)
           /\ is_valid_email(email))
    THEN [rc |-> ACC_ERR_INVALID, user_id |-> 0, db |-> db]
    ELSE IF \E i \in 1..Len(db) : AccHasName(username, db[i])
    THEN [rc |-> ACC_ERR_EXISTS, user_id |-> 0, db |-> db]
    ELSE LET next_id == read_next_id_unlocked(db)
             hash == compute_password_hash(salt, password)
         IN  [rc |-> ACC_OK, user_id |-> next_id,
              db |-> Append(db, FormatUserLine(next_id, username, salt, hash, email, 1))]

\* accounts_authenticate, after the scan has stopped at the record r of the
\* user: the checks of active and of the hash.
AuthRecord(r, password) ==
    IF r.active = 0 THEN [rc |-> ACC_ERR_INACTIVE, user_id |-> 0]
    ELSE IF compute_password_hash(r.salt, password) # r.hash
    THEN [rc |-> ACC_ERR_BAD_PASSWORD, user_id |-> 0]
    ELSE [rc |-> ACC_OK, user_id |-> r.id]

\* accounts_authenticate, i being the line its scan stops at (0: none).
AuthLine(db, i, password) ==
    IF i = 0 THEN [rc |-> ACC_ERR_NOT_FOUND, user_id |-> 0]
    ELSE AuthRecord(AccScan(db[i]), password)

\* accounts_authenticate under g_accounts_mutex: [rc, user_id].
accounts_authenticate(db, username, password) ==
    IF ~(is_valid_username(username) /\ is_valid_password(password))
    THEN [rc |-> ACC_ERR_INVALID, user_id |-> 0]
    ELSE AuthLine(db, First({k \in 1..Len(db) : AccHasName(username, db[k])}),
                  password)

\* The id field of line i of the users file, none for i = 0.
IdAt(db, i, none) == IF i = 0 THEN none ELSE AccScan(db[i]).id

accounts_get_user_id(db, username) ==
    IF username = <<>> THEN -1
    ELSE IdAt(db, First({k \in 1..Len(db) : AccHasName(username, db[k])}), -1)

\* The username field of line i of the users file: [found, name].
NameAt(db, i) ==
    IF i = 0 THEN [found |-> FALSE, name |-> <<>>]
    ELSE [found |-> TRUE, name |-> AccScan(db[i]).username]

\* accounts_get_username: [found, name].
accounts_get_username(db, user_id) ==
    IF user_id <= 0 THEN [found |-> FALSE, name |-> <<>>]
    ELSE NameAt(db, First({k \in 1..Len(db) : AccHasId(user_id, db[k])}))

\* ------------------------------------------------------------ sessions.c
\* g_sessions is kept as the function from the indexes of the slots with
\* active = 1 to their fields; a slot with active = 0 is read by no code
\* before sessions_create clears it.  created_at is written and never read.
\* A token is the number of the generate_token draw that produced it (two
\* draws are taken to give two different 32-character strings); 0 is the
\* empty string.

Session(token, user_id, client_socket, last_activity, chat_partner_id) ==
    [token |-> token, user_id |-> user_id, client_socket |-> client_socket,
     last_activity |-> last_activity, chat_partner_id |-> chat_partner_id]

\* g_timeout after sessions_init(timeout_seconds).
g_timeout == IF SessionTimeout > 0 THEN SessionTimeout ELSE 3600

\* The table with the slots of D active and all others not.
Slots(S, D) == [i \in D |-> S[i]]

\* The lowest slot with active = 0, 0 when all MAX_SESSIONS are active.
FreeSlot(S) ==
    IF Cardinality(DOMAIN S) >= MAX_SESSIONS THEN 0
    ELSE CHOOSE i \in 1..(Cardinality(DOMAIN S) + 1) :
             i \notin DOMAIN S /\ \A j \in 1..(i - 1) : j \in DOMAIN S

Expired(s, t) == (t - s.last_activity) >= g_timeout

cleanup_expired_unlocked(S, t) == Slots(S, {i \in DOMAIN S : ~Expired(S[i], t)})

\* sessions_is_user_logged_in: [result, sessions].
sessions_is_user_logged_in(S, t, user_id, exclude_socket) ==
    LET S1 == cleanup_expired_unlocked(S, t)
    IN  [result |-> \E i \in DOMAIN S1 : S1[i].user_id = user_id
                        /\ S1[i].client_socket # exclude_socket,
         sessions |-> S1]

sessions_is_online(S, t, user_id) == sessions_is_user_logged_in(S, t, user_id, -1)

\* sessions_create without the search for the user on another socket.
sessions_create_multi(S, t, user_id, client_socket, draw) ==
    LET S1 == cleanup_expired_unlocked(S, t)
        S2 == Slots(S1, {i \in DOMAIN S1 : S1[i].client_socket # client_socket})
        slot == FreeSlot(S2)
    IN  [rc |-> SESS_OK, token |-> draw,
         sessions |-> [i \in DOMAIN S2 \cup {slot} |->
                          IF i = slot
                          THEN Session(draw, user_id, client_socket, t, 0)
                          ELSE S2[i]]]

\* sessions_create where the newest login wins: the user's session on
\* another socket is deactivated before SESS_ERR_ALREADY is returned.
sessions_create_takeover(S, t, user_id, client_socket, draw) ==
    LET S1 == cleanup_expired_unlocked(S, t)
        S2 == Slots(S1, {i \in DOMAIN S1 : S1[i].client_socket # client_socket})
        slot == FreeSlot(S2)
    IN  IF \E i \in DOMAIN S2 : S2[i].user_id = user_id
        THEN [rc |-> SESS_ERR_ALREADY, token |-> 0,
              sessions |-> Slots(S2, {i \in DOMAIN S2 : S2[i].user_id # user_id})]
        ELSE [rc |-> SESS_OK, token |-> draw,
              sessions |-> [i \in DOMAIN S2 \cup {slot} |->
                               IF i = slot
                               THEN Session(draw, user_id, client_socket, t, 0)
                               ELSE S2[i]]]

\* sessions_create that looks for the user on another socket before it
\* deactivates the sessions of client_socket.
sessions_create_check_first(S, t, user_id, client_socket, draw) ==
    LET S1 == cleanup_expired_unlocked(S, t)
    IN  IF \E i \in DOMAIN S1 : S1[i].user_id = user_id
                                   /\ S1[i].client_socket # client_socket
        THEN [rc |-> SESS_ERR_ALREADY, token |-> 0, sessions |-> S1]
        ELSE sessions_create_multi(S, t, user_id, client_socket, draw)

\* sessions_create; draw is the token generate_token returns: [rc, token, sessions].
sessions_create(S, t, user_id, client_socket, draw) ==
    LET S1 == cleanup_expired_unlocked(S, t)
        S2 == Slots(S1, {i \in DOMAIN S1 : S1[i].client_socket # client_socket})
        slot == FreeSlot(S2)
    IN  IF \E i \in DOMAIN S2 : S2[i].user_id = user_id
                                   /\ S2[i].client_socket # client_socket
        THEN [rc |-> SESS_ERR_ALREADY, token |-> 0, sessions |-> S2]
        ELSE IF slot = 0
        THEN [rc |-> SESS_ERR_FULL, token |-> 0, sessions |-> S2]
        ELSE [rc |-> SESS_OK, token |-> draw,
              sessions |-> [i \in DOMAIN S2 \cup {slot} |->
                               IF i = slot
                               THEN Session(draw, user_id, client_socket, t, 0)
                               ELSE S2[i]]]

\* sessions_validate: [rc, user_id, sessions].
sessions_validate(S, t, token) ==
    IF token = 0 THEN [rc |-> SESS_ERR_NOT_FOUND, user_id |-> 0, sessions |-> S]
    ELSE LET S1 == cleanup_expired_unlocked(S, t)
             i == First({k \in DOMAIN S1 : S1[k].token = token})
         IN  IF i = 0
             THEN [rc |-> SESS_ERR_NOT_FOUND, user_id |-> 0, sessions |-> S1]
             ELSE IF Expired(S1[i], t)
             THEN [rc |-> SESS_ERR_EXPIRED, user_id |-> 0,
                   sessions |-> Slots(S1, DOMAIN S1 \ {i})]
             ELSE [rc |-> SESS_OK, user_id |-> S1[i].user_id,
                   sessions |-> [S1 EXCEPT ![i].last_activity = t]]

\* sessions_destroy that finds the session and leaves it active.
sessions_destroy_keep(S, token) ==
    IF token # 0 /\ \E i \in DOMAIN S : S[i].token = token
    THEN [rc |-> SESS_OK, sessions |-> S]
    ELSE [rc |-> SESS_ERR_NOT_FOUND, sessions |-> S]

\* sessions_destroy that reports SESS_OK whether or not it found the token.
sessions_destroy_any(S, token) ==
    [rc |-> SESS_OK, sessions |-> Slots(S, {i \in DOMAIN S : S[i].token # token})]

\* sessions_destroy: [rc, sessions].
sessions_destroy(S, token) ==
    LET i == IF token = 0 THEN 0 ELSE First({k \in DOMAIN S : S[k].token = token})
    IN  IF i = 0 THEN [rc |-> SESS_ERR_NOT_FOUND, sessions |-> S]
        ELSE [rc |-> SESS_OK, sessions |-> [j \in DOMAIN S \ {i} |-> S[j]]]

\* sessions_remove_by_socket that matches on the user id field.
sessions_remove_by_user(S, client_socket) ==
    Slots(S, {i \in DOMAIN S : S[i].user_id # client_socket})

sessions_remove_by_socket(S, client_socket) ==
    Slots(S, {i \in DOMAIN S : S[i].client_socket # client_socket})

sessions_set_chat_partner(S, user_id, partner_user_id) ==
    LET i == First({k \in DOMAIN S : S[k].user_id = user_id})
    IN  IF i = 0 THEN S ELSE [S EXCEPT ![i].chat_partner_id = partner_user_id]

sessions_get_chat_partner(S, user_id) ==
    LET i == First({k \in DOMAIN S : S[k].user_id = user_id})
    IN  IF i = 0 THEN 0 ELSE S[i].chat_partner_id

sessions_get_socket(S, user_id) ==
    LET i == First({k \in DOMAIN S : S[k].user_id = user_id})
    IN  IF i = 0 THEN -1 ELSE S[i].client_socket

sessions_is_chatting_with(S, user_id, partner_user_id) ==
    \E i \in DOMAIN S : S[i].user_id = user_id
                          /\ S[i].chat_partner_id = partner_user_id

\* ------------------------------------------------------------- friends.c
\* An edge of data/friends.db is the line from|to|STATUS|ts.  The names in
\* it are names of the users file (at most 32 characters, no '|') and the
\* status is one of the three words below, so the scan
\* %63[^|]|%63[^|]|%31[^|]|%ld gives back the four fields as written and
\* the file is kept as the sequence of its records.
FRIEND_OK == "FRIEND_OK"
FRIEND_ERR_SELF == "FRIEND_ERR_SELF"
FRIEND_ERR_NOT_FOUND == "FRIEND_ERR_NOT_FOUND"
FRIEND_ERR_EXISTS == "FRIEND_ERR_EXISTS"
FRIEND_ERR_INTERNAL == "FRIEND_ERR_INTERNAL"

Edge(from, to, status, ts) == [from |-> from, to |-> to, status |-> status, ts |-> ts]

FrScanTable == [l \in KnownLines |-> sscanf_user(l, 63, 63, 63, 127)]

\* The record scan of friends.c over the users file.
FrScan(line) ==
    IF line \in KnownLines THEN FrScanTable[line]
    ELSE sscanf_user(line, 63, 63, 63, 127)

\* The username field of line i as friends.c scans it: [found, name].
FrNameAt(db, i) ==
    IF i = 0 THEN [found |-> FALSE, name |-> <<>>]
    ELSE [found |-> TRUE, name |-> FrScan(db[i]).username]

\* friends.c get_username_by_id: [found, name].
get_username_by_id(db, user_id) ==
    FrNameAt(db, First({k \in 1..Len(db) : /\ FrScan(db[k]).n = 6
                                          /\ FrScan(db[k]).id = user_id}))

\* friends.c username_exists
username_exists(db, username) ==
    \E i \in 1..Len(db) : /\ FrScan(db[i]).n = 6
                          /\ FrScan(db[i]).username = username
                          /\ FrScan(db[i]).active # 0

\* The records of F at the indexes of D, in file order.
RECURSIVE EdgesAt(_, _, _)
EdgesAt(F, D, i) ==
    IF i > Len(F) THEN <<>>
    ELSE (IF i \in D THEN <<F[i]>> ELSE <<>>) \o EdgesAt(F, D, i + 1)

\* friends_send_invite, me being what get_username_by_id gave for the
\* sender: the checks, the search of the file under friends_mutex and the
\* append.
Invite(db, F, t, me, to_username) ==
    IF to_username = <<>> \/ ~me.found THEN [rc |-> FRIEND_ERR_INTERNAL, friends |-> F]
    ELSE IF me.name = to_username THEN [rc |-> FRIEND_ERR_SELF, friends |-> F]
    ELSE IF ~username_exists(db, to_username)
    THEN [rc |-> FRIEND_ERR_NOT_FOUND, friends |-> F]
    ELSE IF \E i \in 1..Len(F) :
               \/ /\ F[i].from = me.name /\ F[i].to = to_username
                  /\ F[i].status \in {"PENDING", "ACCEPTED"}
               \/ /\ F[i].from = to_username /\ F[i].to = me.name
                  /\ F[i].status = "ACCEPTED"
    THEN [rc |-> FRIEND_ERR_EXISTS, friends |-> F]
    ELSE [rc |-> FRIEND_OK,
          friends |-> Append(F, Edge(me.name, to_username, "PENDING", t))]

\* friends_send_invite: [rc, friends].
friends_send_invite(db, F, t, from_user_id, to_username) ==
    Invite(db, F, t, get_username_by_id(db, from_user_id), to_username)

\* The edge e is from -> to.
FromTo(e, from, to) == e.from = from /\ e.to = to

\* friends_accept_invite, me being what get_username_by_id gave for the
\* caller.  The copy to friends.db.tmp stops with FRIEND_ERR_EXISTS at an
\* ACCEPTED from -> me edge and replaces the file only when a PENDING one
\* was rewritten.
Accepted(F, t, me, from_username) ==
    IF from_username = <<>> \/ ~me.found THEN [rc |-> FRIEND_ERR_INTERNAL, friends |-> F]
    ELSE IF me.name = from_username THEN [rc |-> FRIEND_ERR_SELF, friends |-> F]
    ELSE IF \E i \in 1..Len(F) :
               FromTo(F[i], from_username, me.name) /\ F[i].status = "ACCEPTED"
    THEN [rc |-> FRIEND_ERR_EXISTS, friends |-> F]
    ELSE IF \E i \in 1..Len(F) :
               FromTo(F[i], from_username, me.name) /\ F[i].status = "PENDING"
    THEN [rc |-> FRIEND_OK,
          friends |-> [i \in 1..Len(F) |->
                          IF FromTo(F[i], from_username, me.name)
                             /\ F[i].status = "PENDING"
                          THEN Edge(F[i].from, F[i].to, "ACCEPTED", t)
                          ELSE F[i]]]
    ELSE [rc |-> FRIEND_ERR_NOT_FOUND, friends |-> F]

\* friends_accept_invite: [rc, friends].
friends_accept_invite(db, F, t, to_user_id, from_username) ==
    Accepted(F, t, get_username_by_id(db, to_user_id), from_username)

\* The checks of friends_reject_invite and friends_delete, then the copy of
\* the file without the edges at the indexes of D (FRIEND_ERR_NOT_FOUND and
\* the file as it was when D is empty).
Removed(F, me, other_username, D) ==
    IF other_username = <<>> \/ ~me.found THEN [rc |-> FRIEND_ERR_INTERNAL, friends |-> F]
    ELSE IF me.name = other_username THEN [rc |-> FRIEND_ERR_SELF, friends |-> F]
    ELSE IF D = {} THEN [rc |-> FRIEND_ERR_NOT_FOUND, friends |-> F]
    ELSE [rc |-> FRIEND_OK, friends |-> EdgesAt(F, (1..Len(F)) \ D, 1)]

\* The PENDING from -> me edges.
PendingFrom(F, me, from_username) ==
    {i \in 1..Len(F) : FromTo(F[i], from_username, me.name) /\ F[i].status = "PENDING"}

Rejected(F, me, from_username) ==
    Removed(F, me, from_username, PendingFrom(F, me, from_username))

\* friends_reject_invite under friends_mutex: [rc, friends].
friends_reject_invite(db, F, to_user_id, from_username) ==
    Rejected(F, get_username_by_id(db, to_user_id), from_username)

\* AcceptedBetween without the edges other sent.
AcceptedBetween_oneway(F, me, other_username) ==
    {i \in 1..Len(F) : /\ F[i].status = "ACCEPTED"
                       /\ FromTo(F[i], me.name, other_username)}

\* The ACCEPTED edges between me and other, either direction.
AcceptedBetween(F, me, other_username) ==
    {i \in 1..Len(F) : /\ F[i].status = "ACCEPTED"
                       /\ \/ FromTo(F[i], me.name, other_username)
                          \/ FromTo(F[i], other_username, me.name)}

Deleted(F, me, other_username) ==
    Removed(F, me, other_username, AcceptedBetween(F, me, other_username))

\* friends_delete under friends_mutex: [rc, friends].
friends_delete(db, F, user_id, other_username) ==
    Deleted(F, get_username_by_id(db, user_id), other_username)

\* ------------------------------------------------------------ messages.c
\* data/pm/<lo>_<hi>.txt is kept as its lines, in the order they were
\* written, each tagged with the pair of ids that names its file.
PM_OK == "PM_OK"
PM_ERR_SELF == "PM_ERR_SELF"
PM_ERR_NOT_FOUND == "PM_ERR_NOT_FOUND"
PM_ERR_INTERNAL == "PM_ERR_INTERNAL"

\* Base64 of "hi", the content a client sends.
Contents == {<<"a", "G", "k", "=">>}

\* get_pm_filepath: the smaller id first.
get_pm_filepath(user1_id, user2_id) ==
    IF user1_id < user2_id THEN <<user1_id, user2_id>> ELSE <<user2_id, user1_id>>

PmLine(file, line) == [file |-> file, line |-> line]

\* fprintf(f, "%d|%d|%s|%ld|%d\n", msg_id, from_id, content, ts, read_flag)
FormatPmLine(msg_id, from_id, content, ts, read_flag) ==
    FormatInt(msg_id) \o <<"|">> \o FormatInt(from_id) \o <<"|">> \o content
        \o <<"|">> \o FormatInt(ts) \o <<"|">> \o FormatInt(read_flag) \o <<"\n">>

\* sscanf(line, "%d|%d|%2047[^|]|%ld|%d", ...): n is the number of
\* conversions made (every line of the model fits fgets(line, 4096)).
PmScan(line) ==
    LET v == ScanFrom(line, <<0, 0, 2047, 0, 0>>, 1, 1)
    IN  [n |-> Len(v), msg_id |-> Field(v, 1, 0), from_id |-> Field(v, 2, 0),
         content |-> Field(v, 3, <<>>), ts |-> Field(v, 4, 0),
         read_flag |-> Field(v, 5, 0)]

\* Lines pm_send and pm_mark_read write in the runs of the model, and their
\* scans, computed once.
PmKnownLines ==
    {FormatPmLine(id, from, c, ts, rd) :
        id \in 1..4, from \in 1..2,
        c \in {<<"a", "G", "k", "=">>, <<>>, <<"a", "|", "5", "|">>, <<"a">>},
        ts \in (0..MaxTime) \cup {5}, rd \in 0..2}

PmScanTable == [l \in PmKnownLines |-> PmScan(l)]

sscanf_pm(line) ==
    IF line \in PmKnownLines THEN PmScanTable[line] ELSE PmScan(line)

\* messages.c get_user_id_by_username: the id of the first record of that
\* name, -1 when there is none.
FrIdAt(db, i) == IF i = 0 THEN -1 ELSE FrScan(db[i]).id

get_user_id_by_username(db, username) ==
    FrIdAt(db, First({k \in 1..Len(db) : /\ FrScan(db[k]).n = 6
                                        /\ FrScan(db[k]).username = username}))

\* PmAppend with g_next_msg_id read but not incremented.
PmAppend_reuse(P, next, t, from_user_id, me, to_username, to_user_id, content) ==
    IF to_username = <<>> \/ ~me.found
    THEN [rc |-> PM_ERR_INTERNAL, msg_id |-> 0, files |-> P, next |-> next]
    ELSE IF me.name = to_username
    THEN [rc |-> PM_ERR_SELF, msg_id |-> 0, files |-> P, next |-> next]
    ELSE IF to_user_id < 0
    THEN [rc |-> PM_ERR_NOT_FOUND, msg_id |-> 0, files |-> P, next |-> next]
    ELSE [rc |-> PM_OK, msg_id |-> next, next |-> next,
          files |-> Append(P, PmLine(get_pm_filepath(from_user_id, to_user_id),
                                     FormatPmLine(next, from_user_id, content, t, 0)))]

\* pm_send once the sender's name me and the recipient's id are looked up:
\* under pm_mutex the record is appended with the next message id.
PmAppend(P, next, t, from_user_id, me, to_username, to_user_id, content) ==
    IF to_username = <<>> \/ ~me.found
    THEN [rc |-> PM_ERR_INTERNAL, msg_id |-> 0, files |-> P, next |-> next]
    ELSE IF me.name = to_username
    THEN [rc |-> PM_ERR_SELF, msg_id |-> 0, files |-> P, next |-> next]
    ELSE IF to_user_id < 0
    THEN [rc |-> PM_ERR_NOT_FOUND, msg_id |-> 0, files |-> P, next |-> next]
    ELSE [rc |-> PM_OK, msg_id |-> next, next |-> next + 1,
          files |-> Append(P, PmLine(get_pm_filepath(from_user_id, to_user_id),
                                     FormatPmLine(next, from_user_id, content, t, 0)))]

\* pm_send: [rc, msg_id, files, next].
pm_send(db, P, next, t, from_user_id, to_username, content) ==
    PmAppend(P, next, t, from_user_id, get_username_by_id(db, from_user_id),
             to_username, get_user_id_by_username(db, to_username), content)

\* Values the local read_flag of pm_mark_read can hold while nothing was
\* assigned to it.
ReadFlagJunk == {0, 1, 2}

\* The line pm_mark_read writes for a line it has read and scanned as r;
\* junk is read_flag where the scan did not assign it.
MarkedLine(line, r, other_id, junk) ==
    IF r.n >= 4
    THEN FormatPmLine(r.msg_id, r.from_id, r.content, r.ts,
                      IF r.from_id = other_id THEN 1
                      ELSE IF r.n = 5 THEN r.read_flag ELSE junk)
    ELSE line

\* pm_mark_read with the other user's id looked up: the file of the pair is
\* copied line by line and renamed over the original.
PmMarked(P, user_id, other_id, junk) ==
    IF other_id < 0 THEN P
    ELSE [i \in 1..Len(P) |->
             IF P[i].file = get_pm_filepath(user_id, other_id)
             THEN PmLine(P[i].file,
                         MarkedLine(P[i].line, sscanf_pm(P[i].line), other_id, junk))
             ELSE P[i]]

\* pm_mark_read: the files after the call.
pm_mark_read(db, P, user_id, other_username, junk) ==
    PmMarked(P, user_id, get_user_id_by_username(db, other_username), junk)

\* One entry msg_id:from:content:ts of the output of pm_get_history.
HistoryEntry(r, user_id, my_username, their_username) ==
    <<r.msg_id, IF r.from_id = user_id THEN my_username ELSE their_username,
      r.content, r.ts>>

\* The entries of the lines of file f among the first i lines that scan
\* with four conversions or more, the latest first.
RECURSIVE HistoryFrom(_, _, _, _, _, _)
HistoryFrom(P, f, user_id, my_username, their_username, i) ==
    IF i = 0 THEN <<>>
    ELSE IF P[i].file # f \/ sscanf_pm(P[i].line).n < 4
    THEN HistoryFrom(P, f, user_id, my_username, their_username, i - 1)
    ELSE <<HistoryEntry(sscanf_pm(P[i].line), user_id, my_username, their_username)>>
         \o HistoryFrom(P, f, user_id, my_username, their_username, i - 1)

PmHistory(P, user_id, me, other_username, other_id) ==
    IF other_id < 0 THEN <<>>
    ELSE HistoryFrom(P, get_pm_filepath(user_id, other_id), user_id, me.name,
                     other_username, Len(P))

\* pm_get_history with a limit and a buffer no run here fills: the entries
\* written to out, empty when the other user is unknown or the file absent.
pm_get_history(db, P, user_id, other_username) ==
    PmHistory(P, user_id, get_username_by_id(db, user_id), other_username,
              get_user_id_by_username(db, other_username))

\* -------------------------------------------------------------- groups.c
GROUP_OK == "GROUP_OK"
GROUP_ERR_NOT_FOUND == "GROUP_ERR_NOT_FOUND"
GROUP_ERR_EXISTS == "GROUP_ERR_EXISTS"
GROUP_ERR_PERMISSION == "GROUP_ERR_PERMISSION"
GROUP_ERR_INTERNAL == "GROUP_ERR_INTERNAL"
GROUP_ERR_SELF == "GROUP_ERR_SELF"

\* time(NULL) at the start of the server; the variable now counts the
\* seconds since then.
Epoch == 1

\* time(NULL) when now is t.
time(t) == Epoch + t

\* groups.c get_username_by_id, which reads active records only: [found, name].
groups_get_username_by_id(db, user_id) ==
    FrNameAt(db, First({k \in 1..Len(db) : /\ FrScan(db[k]).n = 6
                                          /\ FrScan(db[k]).id = user_id
                                          /\ FrScan(db[k]).active # 0}))

\* groups.c username_exists
groups_username_exists(db, username) ==
    \E i \in 1..Len(db) : /\ FrScan(db[i]).n = 6
                          /\ FrScan(db[i]).active # 0
                          /\ FrScan(db[i]).username = username

\* fprintf(g, "%d|%s|%s|%ld\n", gid, group_name, owner, time(NULL))
FormatGroupLine(gid, group_name, owner, ts) ==
    FormatInt(gid) \o <<"|">> \o group_name \o <<"|">> \o owner \o <<"|">>
        \o FormatInt(ts) \o <<"\n">>

\* Group names a client may send.
GroupNames == {<<"g">>}

\* sscanf(line, "%d|%63[^|]|%63[^|]|%ld", &gid, name, owner_name, &ts)
GroupScan(line) ==
    LET v == ScanFrom(line, <<0, 63, 63, 0>>, 1, 1)
    IN  [n |-> Len(v), gid |-> Field(v, 1, 0), name |-> Field(v, 2, <<>>),
         owner |-> Field(v, 3, <<>>), ts |-> Field(v, 4, 0)]

\* The lines groups_create can write for the inputs of the model, and
\* their scans, computed once.
GroupLines ==
    {FormatGroupLine(time(t), n, o, time(t)) :
        t \in 0..MaxTime, n \in GroupNames, o \in {UserA, UserB}}

GroupScanTable == [l \in GroupLines |-> GroupScan(l)]

\* The record scan of is_group_owner.
sscanf_group(line) ==
    IF line \in GroupLines THEN GroupScanTable[line] ELSE GroupScan(line)

\* fprintf(m, "%d|%s\n", gid, username)
FormatMemberLine(gid, username) ==
    FormatInt(gid) \o <<"|">> \o username \o <<"\n">>

isspace(c) == c \in {" ", "\n", "\t", "\r"}

\* Number of characters from position i that "%ws" stores.
RECURSIVE WordLen(_, _, _)
WordLen(s, i, w) == IF i > Len(s) \/ w = 0 \/ isspace(s[i]) THEN 0
                    ELSE 1 + WordLen(s, i + 1, w - 1)

\* Position of the first character from i on that is not white space.
RECURSIVE SkipSpace(_, _)
SkipSpace(s, i) == IF i <= Len(s) /\ isspace(s[i]) THEN SkipSpace(s, i + 1) ELSE i

\* "%ws" at position i.
ScanWord(s, i, w) ==
    LET b == SkipSpace(s, i)
        n == WordLen(s, b, w)
    IN  [ok |-> n > 0, val |-> SubSeq(s, b, b + n - 1)]

\* sscanf(line, "%d|%63s", &gid, u)
MemberScan(line) ==
    LET g == ScanInt(line, 1)
    IN  IF ~g.ok THEN [n |-> 0, gid |-> 0, u |-> <<>>]
        ELSE IF ~MatchBar(line, g.next) THEN [n |-> 1, gid |-> g.val, u |-> <<>>]
        ELSE LET w == ScanWord(line, g.next + 1, 63)
             IN  IF w.ok THEN [n |-> 2, gid |-> g.val, u |-> w.val]
                 ELSE [n |-> 1, gid |-> g.val, u |-> <<>>]

\* The lines groups_create and groups_add_member can write for the inputs
\* of the model, and their scans, computed once.
MemberLines ==
    {FormatMemberLine(time(t), u) : t \in 0..MaxTime, u \in {UserA, UserB}}

MemberScanTable == [l \in MemberLines |-> MemberScan(l)]

\* The record scan of the membership file.
sscanf_member(line) ==
    IF line \in MemberLines THEN MemberScanTable[line] ELSE MemberScan(line)

is_group_owner(G, group_id, username) ==
    \E i \in 1..Len(G) : /\ sscanf_group(G[i]).n = 4
                         /\ sscanf_group(G[i]).gid = group_id
                         /\ sscanf_group(G[i]).owner = username

\* The line is a record of username in group_id.
MemberLine(line, group_id, username) ==
    /\ sscanf_member(line).n = 2
    /\ sscanf_member(line).gid = group_id
    /\ sscanf_member(line).u = username

is_group_member(Mb, group_id, username) ==
    \E i \in 1..Len(Mb) : MemberLine(Mb[i], group_id, username)

\* groups_create after its owner was read: [rc, group_id, groups, members].
Created(G, Mb, t, owner, group_name) ==
    [rc |-> GROUP_OK, group_id |-> time(t),
     groups |-> Append(G, FormatGroupLine(time(t), group_name, owner, time(t))),
     members |-> Append(Mb, FormatMemberLine(time(t), owner))]

\* groups_create: [rc, group_id, groups, members].
groups_create(db, G, Mb, t, owner_user_id, group_name) ==
    IF group_name = <<>> \/ ~groups_get_username_by_id(db, owner_user_id).found
    THEN [rc |-> GROUP_ERR_INTERNAL, group_id |-> 0, groups |-> G, members |-> Mb]
    ELSE Created(G, Mb, t, groups_get_username_by_id(db, owner_user_id).name, group_name)

\* The names of the records of group_id from line i on, in file order.
RECURSIVE MembersFrom(_, _, _)
MembersFrom(Mb, group_id, i) ==
    IF i > Len(Mb) THEN <<>>
    ELSE (IF sscanf_member(Mb[i]).n = 2 /\ sscanf_member(Mb[i]).gid = group_id
          THEN <<sscanf_member(Mb[i]).u>> ELSE <<>>)
         \o MembersFrom(Mb, group_id, i + 1)

\* groups_list_members (the names fit the buffer of the handler): [rc, out].
groups_list_members(db, Mb, user_id, group_id) ==
    IF ~groups_get_username_by_id(db, user_id).found
    THEN [rc |-> GROUP_ERR_INTERNAL, out |-> <<>>]
    ELSE IF ~is_group_member(Mb, group_id, groups_get_username_by_id(db, user_id).name)
    THEN [rc |-> GROUP_ERR_PERMISSION, out |-> <<>>]
    ELSE [rc |-> GROUP_OK, out |-> MembersFrom(Mb, group_id, 1)]

\* groups_add_member: [rc, members].
groups_add_member(db, G, Mb, owner_user_id, group_id, username) ==
    IF username = <<>> \/ ~groups_get_username_by_id(db, owner_user_id).found
    THEN [rc |-> GROUP_ERR_INTERNAL, members |-> Mb]
    ELSE IF ~groups_username_exists(db, username)
    THEN [rc |-> GROUP_ERR_NOT_FOUND, members |-> Mb]
    ELSE IF ~is_group_owner(G, group_id,
                            groups_get_username_by_id(db, owner_user_id).name)
    THEN [rc |-> GROUP_ERR_PERMISSION, members |-> Mb]
    ELSE IF is_group_member(Mb, group_id, username)
    THEN [rc |-> GROUP_ERR_EXISTS, members |-> Mb]
    ELSE [rc |-> GROUP_OK, members |-> Append(Mb, FormatMemberLine(group_id, username))]

\* The copy loop of groups_remove_member and groups_leave from line i on:
\* every line but the records of username in group_id.
RECURSIVE MembersWithout(_, _, _, _)
MembersWithout(Mb, group_id, username, i) ==
    IF i > Len(Mb) THEN <<>>
    ELSE (IF MemberLine(Mb[i], group_id, username) THEN <<>> ELSE <<Mb[i]>>)
         \o MembersWithout(Mb, group_id, username, i + 1)

\* groups_remove_member: [rc, members].
groups_remove_member(db, G, Mb, owner_user_id, group_id, username) ==
    IF ~groups_get_username_by_id(db, owner_user_id).found
    THEN [rc |-> GROUP_ERR_INTERNAL, members |-> Mb]
    ELSE IF ~is_group_owner(G, group_id,
                            groups_get_username_by_id(db, owner_user_id).name)
    THEN [rc |-> GROUP_ERR_PERMISSION, members |-> Mb]
    ELSE IF ~is_group_member(Mb, group_id, username)
    THEN [rc |-> GROUP_ERR_NOT_FOUND, members |-> Mb]
    ELSE [rc |-> GROUP_OK, members |-> MembersWithout(Mb, group_id, username, 1)]

\* groups_leave with the copy made before the owner is looked at: the
\* owner's record is removed and GROUP_ERR_SELF returned.
Left_owner_last(G, Mb, username, group_id) ==
    IF ~is_group_member(Mb, group_id, username)
    THEN [rc |-> GROUP_ERR_NOT_FOUND, members |-> Mb]
    ELSE [rc |-> IF is_group_owner(G, group_id, username) THEN GROUP_ERR_SELF
                 ELSE GROUP_OK,
          members |-> MembersWithout(Mb, group_id, username, 1)]

\* groups_leave after the username of the caller was read: [rc, members].
Left(G, Mb, username, group_id) ==
    IF is_group_owner(G, group_id, username)
    THEN [rc |-> GROUP_ERR_SELF, members |-> Mb]
    ELSE IF ~is_group_member(Mb, group_id, username)
    THEN [rc |-> GROUP_ERR_NOT_FOUND, members |-> Mb]
    ELSE [rc |-> GROUP_OK, members |-> MembersWithout(Mb, group_id, username, 1)]

\* groups_leave: [rc, members].
groups_leave(db, G, Mb, user_id, group_id) ==
    IF ~groups_get_username_by_id(db, user_id).found
    THEN [rc |-> GROUP_ERR_INTERNAL, members |-> Mb]
    ELSE Left(G, Mb, groups_get_username_by_id(db, user_id).name, group_id)

\* ------------------------------------------------- server state (server.c)
\* Socket handles accept() returns (positive file descriptors).
Conns == 1..NumConns

VARIABLES
    users_db,       \* data/users.db: the lines of the file, in file order
    friends_db,     \* data/friends.db: the edges of the file, in file order
    pm_files,       \* data/pm/<lo>_<hi>.txt: the lines, each tagged with its file
    g_next_msg_id,  \* messages.c counter of the running process
    msg_id_file,    \* data/pm/.msg_id: the number in it, 0 while there is no file
    ret,            \* history: the last call made on a store without a handler, and its result
    groups_db,      \* data/groups.db: the lines of the file, in file order
    group_members_db, \* data/group_members.db: the lines of the file, in file order
    g_sessions,     \* sessions.c table: active slot -> Session
    dropped,        \* history: users whose session a worker removed on its exit
    now,            \* time(NULL)
    draws,          \* tokens generate_token has produced so far
    conn,           \* handle -> "free" | "open" | "eof" (peer has closed)
    pc,             \* handle -> position of its worker thread
    loc,            \* handle -> locals of the handler its worker is in
    out,            \* handle -> response its worker is writing, chunks sent
    wire,           \* handle -> chunks of the frames not yet complete on it
    framer,         \* one worker seen at byte level: its socket, LineFramer and lines
    locks,          \* handle -> mutex calls its worker has left, mutexes it holds
    gm              \* data/gm/<group_id>.txt, gm_next_msg_id, gm_send calls under way

vars == <<users_db, friends_db, pm_files, g_next_msg_id, msg_id_file, ret, groups_db,
          group_members_db, g_sessions, dropped, now, draws, conn, pc, loc, out,
          wire, framer, locks, gm>>

stores == <<friends_db, pm_files, g_next_msg_id, msg_id_file, ret, groups_db, group_members_db>>

\* ------------------------------------------------- responses (protocol.c)
NoRsp == [kind |-> "none", code |-> 0, msg |-> <<>>]
\* proto_send_ok(sock, rid, payload): payload as a sequence of key, value.
OkRsp(payload) == [kind |-> "OK", code |-> 200, msg |-> payload]
\* send_simple_err(sock, rid, code, msg)
ErrRsp(code, msg) == [kind |-> "ERR", code |-> code, msg |-> <<msg>>]

\* send_all calls a response takes: proto_send_ok writes header, payload and
\* CRLF with one send_all each, proto_send_err writes the whole line at once.
NumChunks(rsp) ==
    IF rsp.kind = "OK" THEN (IF rsp.msg # <<>> THEN 3 ELSE 2) ELSE 1

NoLoc == [verb |-> "", req_id |-> <<>>, token |-> 0, user_id |-> 0, peer |-> <<>>,
          peer_id |-> 0, to_sock |-> 0]
NoOut == [rsp |-> NoRsp, sent |-> 0, after |-> "read"]

\* One send() on handle k by the worker of handle by. A closed handle takes
\* no bytes (EBADF). The stream keeps the chunks written since it last stood
\* at a frame boundary; once chunks of two frames are mixed it stays so.
Chunk(by, frame, last) == [by |-> by, frame |-> frame, last |-> last]

Mixed(w) == \E i, j \in 1..Len(w) : w[i].by # w[j].by \/ w[i].frame # w[j].frame

send(W, cn, k, ch) ==
    IF cn[k] = "free" \/ Mixed(W[k]) THEN W
    ELSE LET w == Append(W[k], ch)
         IN  [W EXCEPT ![k] = IF ch.last /\ ~Mixed(w) THEN <<>> ELSE w]

\* ------------------------------------------------------- worker life cycle
\* A call of a store operation and what it returned.
Ret(op, user_id, id, name, rc, result) ==
    [op |-> op, user_id |-> user_id, id |-> id, name |-> name, rc |-> rc,
     out |-> result]

NoRet == Ret("", 0, 0, <<>>, "", <<>>)

\* No group message file; gm_next_msg_id has its initializer (main does
\* not call gm_init); no gm_send is between its checks and its append.
NoGm == [files |-> <<>>, next |-> 1, pend |-> {}]

\* A worker between two requests. ops: the pthread_mutex_lock and _unlock
\* calls the request in hand has yet to make; held: the mutexes the worker
\* holds, in the order it locked them; last: history, the mutex the
\* request locked last.
NoWorkerLocks == [ops |-> <<>>, held |-> <<>>, last |-> "none"]

NoLocks == [c \in 1..NumConns |-> NoWorkerLocks]

\* A worker whose connection has not been accepted yet. stream: all the
\* bytes its client writes; sent: how many of them have reached the socket;
\* taken: how many recv has returned; shut: the client has closed; data:
\* framer->data[0 .. len); lines, rsps: history of the lines handed to
\* handle_request and of its responses; r: what framer_recv_line returned
\* last; reads: history, the number of recv calls that returned bytes; st:
\* "idle", "read" or "closed"; reset: the client has reset the connection;
\* wfail: history, the number of the first line whose response send_all
\* failed to write, 0 while none has.
NoFramer == [stream |-> <<>>, sent |-> 0, taken |-> 0, shut |-> FALSE, data |-> <<>>,
             lines |-> <<>>, rsps |-> <<>>, r |-> 1, reads |-> 0, st |-> "idle",
             reset |-> FALSE, wfail |-> 0]

Init ==
    /\ users_db = <<>>
    /\ friends_db = <<>>
    /\ pm_files = <<>>
    /\ g_next_msg_id = 1
    /\ msg_id_file = 0
    /\ ret = NoRet
    /\ groups_db = <<>>
    /\ group_members_db = <<>>
    /\ g_sessions = <<>>
    /\ dropped = {}
    /\ now = 0
    /\ draws = 0
    /\ conn = [c \in Conns |-> "free"]
    /\ pc = [c \in Conns |-> "idle"]
    /\ loc = [c \in Conns |-> NoLoc]
    /\ out = [c \in Conns |-> NoOut]
    /\ wire = [c \in Conns |-> <<>>]
    /\ framer = NoFramer
    /\ locks = NoLocks
    /\ gm = NoGm

\* time(NULL) advances.
Tick ==
    /\ now < MaxTime
    /\ now' = now + 1
    /\ UNCHANGED <<gm, locks, framer, users_db, stores, g_sessions, dropped, draws, conn, pc, loc, out, wire>>

\* main: accept() returns the lowest free handle, a detached client_thread
\* starts on it and blocks in framer_recv_line.
Accept(c) ==
    /\ conn[c] = "free"
    /\ \A k \in Conns : k < c => conn[k] # "free"
    /\ conn' = [conn EXCEPT ![c] = "open"]
    /\ pc' = [pc EXCEPT ![c] = "read"]
    /\ wire' = [wire EXCEPT ![c] = <<>>]
    /\ UNCHANGED <<gm, locks, framer, users_db, stores, g_sessions, dropped, now, draws, loc, out>>

\* The client closes its end. Its worker learns of it in framer_recv_line
\* and nothing else reads the state of the connection, so the step is
\* taken when the worker is there.
PeerClose(c) ==
    /\ conn[c] = "open" /\ pc[c] = "read"
    /\ conn' = [conn EXCEPT ![c] = "eof"]
    /\ UNCHANGED <<gm, locks, framer, users_db, stores, g_sessions, dropped, now, draws, pc, loc, out, wire>>

\* framer_recv_line results that end the loop of client_thread: 0 (peer
\* close), -1 (transport error), -2 (line over the limit).
RecvEnds == {0, -1, -2}

\* client_thread leaves its loop and calls sessions_remove_by_socket(c).
WorkerExit(c, r) ==
    /\ pc[c] = "read"
    /\ r = 0 => conn[c] = "eof"
    /\ r # 0 => conn[c] = "open"
    /\ g_sessions' = sessions_remove_by_socket(g_sessions, c)
    /\ dropped' = dropped \cup {g_sessions[i].user_id : i \in
                       {j \in DOMAIN g_sessions : g_sessions[j].client_socket = c}}
    /\ pc' = [pc EXCEPT ![c] = "close"]
    /\ UNCHANGED <<gm, locks, framer, users_db, stores, now, draws, conn, loc, out, wire>>

\* client_thread: close(c); the handle returns to the system.
Close(c) ==
    /\ pc[c] = "close"
    /\ conn' = [conn EXCEPT ![c] = "free"]
    /\ pc' = [pc EXCEPT ![c] = "idle"]
    /\ UNCHANGED <<gm, locks, framer, users_db, stores, g_sessions, dropped, now, draws, loc, out, wire>>

\* The handler has its response: the worker goes on to write it.
Respond(c, rsp, after) ==
    /\ out' = [out EXCEPT ![c] = [rsp |-> rsp, sent |-> 0, after |-> after]]
    /\ pc' = [pc EXCEPT ![c] = "send"]

\* One send_all of the response being written; after the last one the
\* worker continues at out[c].after (the read loop, unless the handler has
\* work left after its response).
SendChunk(c) ==
    /\ pc[c] = "send"
    /\ LET n == NumChunks(out[c].rsp)
           k == out[c].sent + 1
       IN  /\ wire' = send(wire, conn, c, Chunk(c, "RSP", k = n))
           /\ IF k = n
              THEN /\ pc' = [pc EXCEPT ![c] = out[c].after]
                   /\ out' = [out EXCEPT ![c] = NoOut]
                   /\ loc' = IF out[c].after = "read"
                             THEN [loc EXCEPT ![c] = NoLoc] ELSE loc
              ELSE /\ out' = [out EXCEPT ![c].sent = k]
                   /\ UNCHANGED <<pc, loc>>
    /\ UNCHANGED <<gm, locks, framer, users_db, stores, g_sessions, dropped, now, draws, conn>>

RECURSIVE sendRest(_, _, _, _, _)
sendRest(W, cn, c, k, n) ==
    IF k > n THEN W
    ELSE sendRest(send(W, cn, c, Chunk(c, "RSP", k = n)), cn, c, k + 1, n)

\* All send_all calls of the response in one step: the same writes as
\* SendChunk, for runs in which no other thread writes to the handle.
SendAll(c) ==
    /\ pc[c] = "send"
    /\ wire' = sendRest(wire, conn, c, out[c].sent + 1, NumChunks(out[c].rsp))
    /\ pc' = [pc EXCEPT ![c] = out[c].after]
    /\ out' = [out EXCEPT ![c] = NoOut]
    /\ loc' = IF out[c].after = "read" THEN [loc EXCEPT ![c] = NoLoc] ELSE loc
    /\ UNCHANGED <<gm, locks, framer, users_db, stores, g_sessions, dropped, now, draws, conn>>

\* ---------------------------------------- account and session verbs
\* handle_request, REGISTER: salt is what random_hex returns.
Register(c, username, password, email, salt) ==
    /\ pc[c] = "read" /\ conn[c] = "open"
    /\ Len(users_db) < MaxUsers
    /\ \E r \in {accounts_register(users_db, username, password, email, salt)} :
           /\ users_db' = r.db
           /\ Respond(c, IF r.rc = ACC_OK THEN OkRsp(<<"user_id", r.user_id>>)
                         ELSE IF r.rc = ACC_ERR_EXISTS
                         THEN ErrRsp(409, "username_exists")
                         ELSE IF r.rc = ACC_ERR_INVALID
                         THEN ErrRsp(422, "invalid_fields")
                         ELSE ErrRsp(500, "server_error"), "read")
    /\ UNCHANGED <<gm, locks, framer, stores, g_sessions, dropped, now, draws, conn, loc, wire>>

\* Workers that hold a checked user id and have yet to call sessions_create.
InLogin == {k \in Conns : pc[k] = "login_create"}

\* handle_request, LOGIN, first half: accounts_authenticate.
LoginAuth(c, username, password) ==
    /\ pc[c] = "read" /\ conn[c] = "open"
    /\ draws + Cardinality(InLogin) < MaxTokens
    /\ \E r \in {accounts_authenticate(users_db, username, password)} :
           IF r.rc = ACC_OK
           THEN /\ loc' = [loc EXCEPT ![c] = [NoLoc EXCEPT !.verb = "LOGIN",
                                                           !.user_id = r.user_id]]
                /\ pc' = [pc EXCEPT ![c] = "login_create"]
                /\ UNCHANGED out
           ELSE /\ Respond(c, ErrRsp(401, "invalid_credentials"), "read")
                /\ UNCHANGED loc
    /\ UNCHANGED <<gm, locks, framer, users_db, stores, g_sessions, dropped, now, draws, conn, wire>>

\* handle_request, LOGIN, second half: sessions_create and the response.
\* generate_token draws 32 characters out of 62; two draws of one run are
\* taken to differ, so the token is the number of the draw.
LoginCreate(c) ==
    /\ pc[c] = "login_create"
    /\ \E r \in {sessions_create(g_sessions, now, loc[c].user_id, c, draws + 1)} :
           /\ g_sessions' = r.sessions
           /\ draws' = IF r.rc = SESS_OK THEN draws + 1 ELSE draws
           /\ Respond(c, IF r.rc = SESS_OK
                         THEN OkRsp(<<"token", r.token, "user_id", loc[c].user_id>>)
                         ELSE IF r.rc = SESS_ERR_ALREADY
                         THEN ErrRsp(409, "already_logged_in")
                         ELSE ErrRsp(500, "server_error"), "read")
    /\ UNCHANGED <<gm, locks, framer, users_db, stores, dropped, now, conn, loc, wire>>

\* handle_request, LOGOUT.
Logout(c, token) ==
    /\ pc[c] = "read" /\ conn[c] = "open"
    /\ \E r \in {sessions_destroy(g_sessions, token)} :
           /\ g_sessions' = r.sessions
           /\ Respond(c, IF r.rc = SESS_OK THEN OkRsp(<<"ok", 1>>)
                         ELSE ErrRsp(401, "invalid_token"), "read")
    /\ loc' = [loc EXCEPT ![c] = [NoLoc EXCEPT !.verb = "LOGOUT", !.token = token]]
    /\ UNCHANGED <<gm, locks, framer, users_db, stores, dropped, now, draws, conn, wire>>

\* handle_request, WHOAMI.
Whoami(c, token) ==
    /\ pc[c] = "read" /\ conn[c] = "open"
    /\ \E r \in {sessions_validate(g_sessions, now, token)} :
           /\ g_sessions' = r.sessions
           /\ Respond(c, IF r.rc = SESS_OK THEN OkRsp(<<"user_id", r.user_id>>)
                         ELSE ErrRsp(401, "invalid_token"), "read")
    /\ loc' = [loc EXCEPT ![c] = [NoLoc EXCEPT !.verb = "WHOAMI", !.token = token]]
    /\ UNCHANGED <<gm, locks, framer, users_db, stores, dropped, now, draws, conn, wire>>

\* ------------------------------------------------- sessions specification
\* Tokens a client can put in a request: those issued so far, and the empty
\* string.
ReqTokens == 0..draws

\* Request fields of the sessions specification.
NameInputs == {UserA, UserB}
PwInputs == {PwGood, PwOther}

Next ==
    \/ Tick
    \/ \E c \in Conns :
        \/ Accept(c)
        \/ PeerClose(c)
        \/ \E r \in RecvEnds : WorkerExit(c, r)
        \/ Close(c)
        \/ SendAll(c)
        \/ \E u \in NameInputs : Register(c, u, PwGood, EmailShort, Salt0)
        \/ \E u \in NameInputs, p \in PwInputs : LoginAuth(c, u, p)
        \/ LoginCreate(c)
        \/ \E t \in ReqTokens : Logout(c, t)
        \/ \E t \in ReqTokens : Whoami(c, t)

Spec == Init /\ [][Next]_vars

\* ------------------------------------------------------ session claims
Tokens(S) == {S[i].token : i \in DOMAIN S}

\* A session the registry still counts: in the table and not idle for
\* g_timeout (the next cleanup_expired_unlocked keeps it).
Live(s) == ~Expired(s, now)

\* C1: any two distinct active sessions of the registry differ in their
\* user id and in their connection handle, whatever the interleaving of
\* LOGIN, LOGOUT, token validation, idle expiry and connection close.
C1_SessionsUnique ==
    \A i, j \in DOMAIN g_sessions :
        i # j => /\ g_sessions[i].user_id # g_sessions[j].user_id
                 /\ g_sessions[i].client_socket # g_sessions[j].client_socket

\* Two users hold sessions on two handles after a third login has replaced
\* an earlier session.
C1_Witness == Cardinality(DOMAIN g_sessions) = 2 /\ draws >= 3

\* C5: when sessions_create runs for a LOGIN of a user who has a live
\* session on another handle, the response is ERR 409 already_logged_in and
\* that session stays in the table unchanged, token included.
C5_AlreadyLoggedIn ==
    [][\A c \in Conns : \A i \in DOMAIN g_sessions :
          (/\ LoginCreate(c)
           /\ g_sessions[i].user_id = loc[c].user_id
           /\ g_sessions[i].client_socket # c
           /\ Live(g_sessions[i]))
          => /\ out'[c].rsp = ErrRsp(409, "already_logged_in")
             /\ i \in DOMAIN g_sessions'
             /\ g_sessions'[i] = g_sessions[i]]_vars

\* A worker is writing the 409 of a LOGIN whose user holds a session on
\* another handle.
C5_Witness ==
    \E c \in Conns :
        /\ pc[c] = "send" /\ loc[c].verb = "LOGIN"
        /\ out[c].rsp = ErrRsp(409, "already_logged_in")
        /\ \E i \in DOMAIN g_sessions : /\ g_sessions[i].user_id = loc[c].user_id
                                        /\ g_sessions[i].client_socket # c

\* C7: a LOGOUT answered OK takes its token out of the registry, a token
\* that is out never comes back, and every WHOAMI or LOGOUT with a token
\* that is out is answered ERR 401 invalid_token while the worker goes on
\* serving the open connection.
C7_LogoutInvalidates ==
    [][\A c \in Conns : \A t \in 1..draws :
          /\ (Logout(c, t) /\ out'[c].rsp.kind = "OK")
                => t \notin Tokens(g_sessions')
          /\ t \notin Tokens(g_sessions) => t \notin Tokens(g_sessions')
          /\ (t \notin Tokens(g_sessions) /\ (Whoami(c, t) \/ Logout(c, t)))
                => /\ out'[c].rsp = ErrRsp(401, "invalid_token")
                   /\ out'[c].after = "read"
                   /\ conn'[c] = "open"]_vars

\* One worker is writing the OK of LOGOUT T while another is writing the
\* 401 of a WHOAMI with the same T.
C7_Witness ==
    \E c, k \in Conns :
        /\ pc[c] = "send" /\ loc[c].verb = "LOGOUT" /\ out[c].rsp.kind = "OK"
        /\ pc[k] = "send" /\ loc[k].verb = "WHOAMI"
        /\ loc[k].token = loc[c].token
        /\ out[k].rsp = ErrRsp(401, "invalid_token")

\* C8: when a worker leaves its loop (peer close, transport error or
\* oversize line) no session bound to its handle stays in the registry; a
\* WHOAMI with a token that is out of the registry gets ERR 401
\* invalid_token; and a LOGIN of a user whose session went that way is
\* answered OK with a new session unless the user is live on another handle.
C8_ExitRemovesSessions ==
    [][\A c \in Conns :
          /\ (\E r \in RecvEnds : WorkerExit(c, r))
                => \A i \in DOMAIN g_sessions' : g_sessions'[i].client_socket # c
          /\ \A t \in 1..draws :
                (t \notin Tokens(g_sessions) /\ Whoami(c, t))
                   => out'[c].rsp = ErrRsp(401, "invalid_token")
          /\ (/\ LoginCreate(c)
              /\ loc[c].user_id \in dropped
              /\ ~\E i \in DOMAIN g_sessions :
                    /\ g_sessions[i].user_id = loc[c].user_id
                    /\ g_sessions[i].client_socket # c
                    /\ Live(g_sessions[i]))
                => /\ out'[c].rsp.kind = "OK"
                   /\ \E i \in DOMAIN g_sessions' :
                         /\ g_sessions'[i].user_id = loc[c].user_id
                         /\ g_sessions'[i].client_socket = c]_vars

\* A user whose session was removed at the exit of a worker has logged in
\* again while that worker has not yet closed its handle.
C8_Witness ==
    \E c, k \in Conns :
        /\ pc[k] = "close" /\ c # k
        /\ pc[c] = "send" /\ loc[c].verb = "LOGIN" /\ out[c].rsp.kind = "OK"
        /\ loc[c].user_id \in dropped
        /\ \E i \in DOMAIN g_sessions : /\ g_sessions[i].user_id = loc[c].user_id
                                        /\ g_sessions[i].client_socket = c

\* C11: sessions_validate called with the token of a session that has been
\* idle for the timeout evicts the session and returns SESS_ERR_EXPIRED, not
\* SESS_ERR_NOT_FOUND; with the token of a session that is not idle-expired
\* it returns the session's user id and sets last_activity to now.
C11_ValidateExpired ==
    [][\A c \in Conns : \A t \in ReqTokens : \A i \in DOMAIN g_sessions :
          (Whoami(c, t) /\ g_sessions[i].token = t)
          => IF Expired(g_sessions[i], now)
             THEN /\ sessions_validate(g_sessions, now, t).rc = SESS_ERR_EXPIRED
                  /\ t \notin Tokens(g_sessions')
             ELSE /\ sessions_validate(g_sessions, now, t).rc = SESS_OK
                  /\ sessions_validate(g_sessions, now, t).user_id = g_sessions[i].user_id
                  /\ \E j \in DOMAIN g_sessions' :
                        /\ g_sessions'[j].token = t
                        /\ g_sessions'[j].last_activity = now]_vars

\* C12: a session idle for at least the timeout is active for no operation
\* of the registry: sessions_is_online, sessions_get_socket,
\* sessions_get_chat_partner and sessions_is_chatting_with report no session
\* for its user, and LOGOUT with its token is answered 401 invalid_token.
C12_ExpiredNotActive ==
    [][\A i \in DOMAIN g_sessions :
          Expired(g_sessions[i], now)
          => /\ ~sessions_is_online(g_sessions, now, g_sessions[i].user_id).result
             /\ sessions_get_socket(g_sessions, g_sessions[i].user_id) = -1
             /\ sessions_get_chat_partner(g_sessions, g_sessions[i].user_id) = 0
             /\ \A p \in 1..MaxUsers :
                   ~sessions_is_chatting_with(g_sessions, g_sessions[i].user_id, p)
             /\ \A c \in Conns :
                   Logout(c, g_sessions[i].token)
                   => out'[c].rsp = ErrRsp(401, "invalid_token")]_vars

\* ------------------------------------------------- accounts specification
\* Request fields of the accounts specification: names and e-mail addresses
\* up to the lengths and characters the validators accept.
AccNames == {UserA, UserLong}
AccEmails == {EmailShort, EmailLong, EmailBar}

NextAcc ==
    \E c \in Conns :
        \/ Accept(c)
        \/ SendAll(c)
        \/ \E u \in AccNames \cup {UserTooLong}, e \in AccEmails, s \in Salts :
              Register(c, u, PwGood, e, s)
        \/ \E u \in AccNames, p \in PwInputs : LoginAuth(c, u, p)
        \/ LoginCreate(c)
        \/ \E t \in ReqTokens : Whoami(c, t)

SpecAcc == Init /\ [][NextAcc]_vars

\* The fields of a line of the users file as fprintf wrote them, read with
\* no limit on their width.
Written(line) == sscanf_user(line, Len(line), Len(line), Len(line), Len(line))

\* username was registered with password: the file holds the line
\* accounts_register appends for them.
Registered(username, password) ==
    {i \in 1..Len(users_db) :
        /\ Written(users_db[i]).username = username
        /\ \E s \in Salts :
              /\ Written(users_db[i]).salt = s
              /\ Written(users_db[i]).hash = compute_password_hash(s, password)}

\* C6: for a username of 3..32 characters, a password and an e-mail that
\* the validators accept, once REGISTER has succeeded the accounts check of
\* a LOGIN with the same username and password succeeds, with the user id
\* REGISTER returned (the id the session and then WHOAMI report).
C6_RegisterThenLogin ==
    [][\A c \in Conns : \A u \in AccNames : \A i \in Registered(u, PwGood) :
          LoginAuth(c, u, PwGood)
             => /\ pc'[c] = "login_create"
                /\ loc'[c].user_id = Written(users_db[i]).id]_vars

\* C9: the users file never holds two records with the same username,
\* whichever way two REGISTER requests for it are ordered.
C9_OneRecordPerName ==
    \A i, j \in 1..Len(users_db) :
        i # j => Written(users_db[i]).username # Written(users_db[j]).username

\* C10: the ids of the records of the users file are pairwise distinct and
\* strictly increasing in file order: every registration got the largest
\* id so far plus one.
C10_IdsIncrease ==
    \A i, j \in 1..Len(users_db) :
        i < j => Written(users_db[i]).id < Written(users_db[j]).id

\* -------------------------------------------------- friends specification
\* The FRIEND_* handlers call the store with the user id of the validated
\* session and the username field of the request.  The operations below
\* are those calls, for every id a session can carry.
\* ------------------------------------------------- friends.c friends_list
\* sizeof(list) in the FRIEND_LIST branch of handle_request.
FriendListCap == 512

\* One entry of the list: the friend and whether sessions_is_online(its id)
\* said so; an id that is not positive is offline without the call.
FriendEntry(S, t, friend_name, friend_id) ==
    [name |-> friend_name,
     online |-> friend_id > 0 /\ sessions_is_online(S, t, friend_id).result]

\* Length of "name:online" or "name:offline".
EntryLen(e) == Len(e.name) + (IF e.online THEN 7 ELSE 8)

\* The loop of friends_list from record i on, used bytes of out being
\* filled: the ACCEPTED edges that name me, in file order, until one does
\* not fit cap.
RECURSIVE ListFrom(_, _, _, _, _, _, _, _)
ListPut(db, F, S, t, me, i, used, cap, e) ==
    IF used + EntryLen(e) + 2 >= cap THEN <<>>
    ELSE <<e>> \o ListFrom(db, F, S, t, me, i + 1,
                           used + EntryLen(e) + (IF used > 0 THEN 1 ELSE 0), cap)

ListFrom(db, F, S, t, me, i, used, cap) ==
    IF i > Len(F) THEN <<>>
    ELSE IF F[i].status = "ACCEPTED" /\ F[i].to = me
    THEN ListPut(db, F, S, t, me, i, used, cap,
                 FriendEntry(S, t, F[i].from, get_user_id_by_username(db, F[i].from)))
    ELSE IF F[i].status = "ACCEPTED" /\ F[i].from = me
    THEN ListPut(db, F, S, t, me, i, used, cap,
                 FriendEntry(S, t, F[i].to, get_user_id_by_username(db, F[i].to)))
    ELSE ListFrom(db, F, S, t, me, i + 1, used, cap)

Listed(db, F, S, t, me, cap) ==
    IF ~me.found THEN [rc |-> FRIEND_ERR_INTERNAL, out |-> <<>>]
    ELSE [rc |-> FRIEND_OK, out |-> ListFrom(db, F, S, t, me.name, 1, 0, cap)]

\* friends_list: [rc, out].
friends_list(db, F, S, t, user_id, cap) ==
    Listed(db, F, S, t, get_username_by_id(db, user_id), cap)

\* The table after friends_list: each sessions_is_online call drops the
\* expired sessions.
SessionsAfterList(db, F, S, t, user_id) ==
    IF friends_list(db, F, S, t, user_id, FriendListCap).out # <<>>
    THEN cleanup_expired_unlocked(S, t) ELSE S

\* How many entries of a list name the user.
TimesIn(list, name) == Cardinality({i \in 1..Len(list) : list[i].name = name})

UserIds == 1..MaxUsers

\* The calls below are the store functions as the handlers call them with
\* the user id sessions_validate gave; ret records the call and its result.
FriendsSendInvite(user_id, to) ==
    /\ Len(friends_db) < MaxEdges
    /\ \E r \in {friends_send_invite(users_db, friends_db, now, user_id, to)} :
           /\ friends_db' = r.friends
           /\ ret' = Ret("FRIEND_INVITE", user_id, 0, to, r.rc, <<>>)
    /\ UNCHANGED <<gm, locks, framer, users_db, pm_files, g_next_msg_id, msg_id_file, groups_db,
                   group_members_db, g_sessions, dropped, now,
                   draws, conn, pc, loc, out, wire>>

FriendsAcceptInvite(user_id, from) ==
    /\ \E r \in {friends_accept_invite(users_db, friends_db, now, user_id, from)} :
           /\ friends_db' = r.friends
           /\ ret' = Ret("FRIEND_ACCEPT", user_id, 0, from, r.rc, <<>>)
    /\ UNCHANGED <<gm, locks, framer, users_db, pm_files, g_next_msg_id, msg_id_file, groups_db,
                   group_members_db, g_sessions, dropped, now,
                   draws, conn, pc, loc, out, wire>>

FriendsRejectInvite(user_id, from) ==
    /\ \E r \in {friends_reject_invite(users_db, friends_db, user_id, from)} :
           /\ friends_db' = r.friends
           /\ ret' = Ret("FRIEND_REJECT", user_id, 0, from, r.rc, <<>>)
    /\ UNCHANGED <<gm, locks, framer, users_db, pm_files, g_next_msg_id, msg_id_file, groups_db,
                   group_members_db, g_sessions, dropped, now,
                   draws, conn, pc, loc, out, wire>>

FriendsDelete(user_id, other) ==
    /\ \E r \in {friends_delete(users_db, friends_db, user_id, other)} :
           /\ friends_db' = r.friends
           /\ ret' = Ret("FRIEND_DELETE", user_id, 0, other, r.rc, <<>>)
    /\ UNCHANGED <<gm, locks, framer, users_db, pm_files, g_next_msg_id, msg_id_file, groups_db,
                   group_members_db, g_sessions, dropped, now,
                   draws, conn, pc, loc, out, wire>>

FriendsList(user_id) ==
    /\ \E r \in {friends_list(users_db, friends_db, g_sessions, now, user_id, FriendListCap)} :
           ret' = Ret("FRIEND_LIST", user_id, 0, <<>>, r.rc, r.out)
    /\ g_sessions' = SessionsAfterList(users_db, friends_db, g_sessions, now, user_id)
    /\ UNCHANGED <<gm, locks, framer, users_db, friends_db, pm_files, g_next_msg_id, msg_id_file,
                   groups_db, group_members_db, dropped, now,
                   draws, conn, pc, loc, out, wire>>

NextFriends ==
    \/ \E c \in Conns :
        \/ Accept(c)
        \/ SendAll(c)
        \/ \E u \in NameInputs : Register(c, u, PwGood, EmailShort, Salt0)
    \/ \E id \in UserIds, u \in NameInputs :
        \/ FriendsSendInvite(id, u)
        \/ FriendsAcceptInvite(id, u)
        \/ FriendsRejectInvite(id, u)
        \/ FriendsDelete(id, u)
    \/ \E id \in UserIds : FriendsList(id)

SpecFriends == Init /\ [][NextFriends]_vars

\* C4: between two users the friendship file holds at most one PENDING or
\* ACCEPTED edge, the two directions counted together, and no edge from a
\* user to itself.
C4_OneEdgePerPair ==
    \A i, j \in 1..Len(friends_db) :
        /\ friends_db[i].from # friends_db[i].to
        /\ (/\ i # j
            /\ friends_db[i].status \in {"PENDING", "ACCEPTED"}
            /\ friends_db[j].status \in {"PENDING", "ACCEPTED"})
           => {friends_db[i].from, friends_db[i].to}
                 # {friends_db[j].from, friends_db[j].to}

\* ------------------------------------------------ private message verbs
\* The handlers below take a step at each call that locks g_sess_mutex
\* after the first one, since other workers change the table in between;
\* the reads of the users file, whose records never change once written,
\* and the calls under pm_mutex are taken with the step they follow.

\* PM_CHAT_START before sessions_set_chat_partner: the error response, or
\* NoRsp when the handler goes on.
ChatStartChecks(db, v, with_user) ==
    IF v.rc # SESS_OK THEN ErrRsp(401, "invalid_token")
    ELSE IF ~accounts_get_username(db, v.user_id).found
    THEN ErrRsp(500, "internal_error")
    ELSE IF accounts_get_user_id(db, with_user) < 0
    THEN ErrRsp(404, "user_not_found")
    ELSE NoRsp

\* handle_request, PM_CHAT_START: sessions_validate, accounts_get_username
\* and accounts_get_user_id.
PmChatStart(c, token, with_user) ==
    /\ pc[c] = "read" /\ conn[c] = "open"
    /\ \E v \in {sessions_validate(g_sessions, now, token)} :
         /\ g_sessions' = v.sessions
         /\ \E rsp \in {ChatStartChecks(users_db, v, with_user)} :
              IF rsp = NoRsp
              THEN /\ loc' = [loc EXCEPT ![c] =
                                [NoLoc EXCEPT !.verb = "PM_CHAT_START", !.token = token,
                                              !.user_id = v.user_id, !.peer = with_user,
                                              !.peer_id = accounts_get_user_id(users_db, with_user)]]
                   /\ pc' = [pc EXCEPT ![c] = "chat_set"]
                   /\ UNCHANGED out
              ELSE /\ Respond(c, rsp, "read")
                   /\ loc' = [loc EXCEPT ![c] =
                                [NoLoc EXCEPT !.verb = "PM_CHAT_START", !.token = token]]
    /\ UNCHANGED <<gm, locks, framer, users_db, stores, dropped, now, draws, conn, wire>>

\* The payload of the OK of PM_CHAT_START.
ChatStartPayload(with_user, me, history) ==
    <<"with", with_user, "me", me.name,
      "history", IF history = <<>> THEN "empty" ELSE history>>

\* handle_request, PM_CHAT_START: sessions_set_chat_partner, pm_mark_read,
\* pm_get_history and the response.
PmChatSet(c) ==
    /\ pc[c] = "chat_set"
    /\ g_sessions' = sessions_set_chat_partner(g_sessions, loc[c].user_id, loc[c].peer_id)
    /\ \E junk \in ReadFlagJunk :
         pm_files' = pm_mark_read(users_db, pm_files, loc[c].user_id, loc[c].peer, junk)
    /\ Respond(c, OkRsp(ChatStartPayload(loc[c].peer,
                            accounts_get_username(users_db, loc[c].user_id),
                            pm_get_history(users_db, pm_files, loc[c].user_id, loc[c].peer))),
               "read")
    /\ UNCHANGED <<gm, locks, framer, users_db, friends_db, g_next_msg_id, msg_id_file, ret, groups_db,
                   group_members_db, dropped, now, draws, conn,
                   loc, wire>>

\* handle_request, PM_CHAT_END: sessions_validate.
PmChatEnd(c, token) ==
    /\ pc[c] = "read" /\ conn[c] = "open"
    /\ \E v \in {sessions_validate(g_sessions, now, token)} :
         /\ g_sessions' = v.sessions
         /\ IF v.rc = SESS_OK
            THEN /\ loc' = [loc EXCEPT ![c] =
                              [NoLoc EXCEPT !.verb = "PM_CHAT_END", !.token = token,
                                            !.user_id = v.user_id]]
                 /\ pc' = [pc EXCEPT ![c] = "chat_clear"]
                 /\ UNCHANGED out
            ELSE /\ Respond(c, ErrRsp(401, "invalid_token"), "read")
                 /\ loc' = [loc EXCEPT ![c] =
                              [NoLoc EXCEPT !.verb = "PM_CHAT_END", !.token = token]]
    /\ UNCHANGED <<gm, locks, framer, users_db, stores, dropped, now, draws, conn, wire>>

\* PM_CHAT_END: pm_mark_read for the partner sessions_get_chat_partner gave,
\* when there is one and its name is found.
ChatEndMarked(db, P, user_id, partner, junk) ==
    IF partner.found THEN pm_mark_read(db, P, user_id, partner.name, junk) ELSE P

\* handle_request, PM_CHAT_END: sessions_get_chat_partner, pm_mark_read,
\* sessions_set_chat_partner(user_id, 0) and the response.
PmChatClear(c) ==
    /\ pc[c] = "chat_clear"
    /\ \E junk \in ReadFlagJunk :
         pm_files' = IF sessions_get_chat_partner(g_sessions, loc[c].user_id) > 0
                     THEN ChatEndMarked(users_db, pm_files, loc[c].user_id,
                              accounts_get_username(users_db,
                                  sessions_get_chat_partner(g_sessions, loc[c].user_id)),
                              junk)
                     ELSE pm_files
    /\ g_sessions' = sessions_set_chat_partner(g_sessions, loc[c].user_id, 0)
    /\ Respond(c, OkRsp(<<"status", "chat_ended">>), "read")
    /\ UNCHANGED <<gm, locks, framer, users_db, friends_db, g_next_msg_id, msg_id_file, ret, groups_db,
                   group_members_db, dropped, now, draws, conn,
                   loc, wire>>

\* The response of PM_SEND to the result r of pm_send.
PmSendRsp(r, to_user) ==
    IF r.rc = PM_OK THEN OkRsp(<<"msg_id", r.msg_id, "to", to_user, "status", "sent">>)
    ELSE IF r.rc = PM_ERR_SELF THEN ErrRsp(422, "cannot_send_to_self")
    ELSE IF r.rc = PM_ERR_NOT_FOUND THEN ErrRsp(404, "user_not_found")
    ELSE ErrRsp(500, "server_error")

\* handle_request, PM_SEND: sessions_validate, pm_send and the response to
\* the sender; after an OK the handler goes on to the push.
PmSend(c, token, to_user, content) ==
    /\ pc[c] = "read" /\ conn[c] = "open"
    /\ g_next_msg_id <= MaxMsgs
    /\ \E v \in {sessions_validate(g_sessions, now, token)} :
         /\ g_sessions' = v.sessions
         /\ IF v.rc # SESS_OK
            THEN /\ Respond(c, ErrRsp(401, "invalid_token"), "read")
                 /\ loc' = [loc EXCEPT ![c] =
                              [NoLoc EXCEPT !.verb = "PM_SEND", !.token = token]]
                 /\ UNCHANGED <<pm_files, g_next_msg_id, msg_id_file>>
            ELSE \E r \in {pm_send(users_db, pm_files, g_next_msg_id, now,
                                   v.user_id, to_user, content)} :
                   /\ pm_files' = r.files
                   /\ g_next_msg_id' = r.next
                   /\ msg_id_file' = IF r.rc = PM_OK THEN r.next ELSE msg_id_file
                   /\ Respond(c, PmSendRsp(r, to_user),
                              IF r.rc = PM_OK THEN "push_check" ELSE "read")
                   /\ loc' = [loc EXCEPT ![c] =
                                [NoLoc EXCEPT !.verb = "PM_SEND", !.token = token,
                                              !.user_id = v.user_id, !.peer = to_user]]
    /\ UNCHANGED <<gm, locks, framer, users_db, friends_db, ret, groups_db, group_members_db, dropped,
                   now, draws, conn, wire>>

\* PM_SEND after its OK: accounts_get_user_id(to_user) and
\* sessions_is_chatting_with(to_user_id, from_user_id).
PushCheck(c) ==
    /\ pc[c] = "push_check"
    /\ \E to_user_id \in {accounts_get_user_id(users_db, loc[c].peer)} :
         IF to_user_id > 0
            /\ sessions_is_chatting_with(g_sessions, to_user_id, loc[c].user_id)
         THEN /\ loc' = [loc EXCEPT ![c].peer_id = to_user_id]
              /\ pc' = [pc EXCEPT ![c] = "push_socket"]
         ELSE /\ loc' = [loc EXCEPT ![c] = NoLoc]
              /\ pc' = [pc EXCEPT ![c] = "read"]
    /\ UNCHANGED <<gm, locks, framer, users_db, stores, g_sessions, dropped, now, draws, conn, out, wire>>

\* PM_SEND: to_sock = sessions_get_socket(to_user_id).
PushSocket(c) ==
    /\ pc[c] = "push_socket"
    /\ \E to_sock \in {sessions_get_socket(g_sessions, loc[c].peer_id)} :
         IF to_sock > 0
         THEN /\ loc' = [loc EXCEPT ![c].to_sock = to_sock]
              /\ pc' = [pc EXCEPT ![c] = "push_write"]
         ELSE /\ loc' = [loc EXCEPT ![c] = NoLoc]
              /\ pc' = [pc EXCEPT ![c] = "read"]
    /\ UNCHANGED <<gm, locks, framer, users_db, stores, g_sessions, dropped, now, draws, conn, out, wire>>

\* PM_SEND: send(to_sock, push_msg, strlen(push_msg), 0), the PUSH PM line
\* in one call, by the sender's worker.
PushWrite(c) ==
    /\ pc[c] = "push_write"
    /\ wire' = send(wire, conn, loc[c].to_sock, Chunk(c, "PUSH", TRUE))
    /\ loc' = [loc EXCEPT ![c] = NoLoc]
    /\ pc' = [pc EXCEPT ![c] = "read"]
    /\ UNCHANGED <<gm, locks, framer, users_db, stores, g_sessions, dropped, now, draws, conn, out>>

\* ---------------------------------------------------- push specification
\* Two registered clients log in, enter and leave chat mode and send
\* private messages, while connections close and their handles are given
\* out again; every send_all of a response is a step of its own.

\* The server starts on the users file two registrations have left.
InitPush ==
    /\ users_db = accounts_register(
                      accounts_register(<<>>, UserA, PwGood, EmailShort, Salt0).db,
                      UserB, PwGood, EmailShort, Salt0).db
    /\ friends_db = <<>>
    /\ pm_files = <<>>
    /\ g_next_msg_id = 1
    /\ msg_id_file = 0
    /\ ret = NoRet
    /\ groups_db = <<>>
    /\ group_members_db = <<>>
    /\ g_sessions = <<>>
    /\ dropped = {}
    /\ now = 0
    /\ draws = 0
    /\ conn = [c \in Conns |-> "free"]
    /\ pc = [c \in Conns |-> "idle"]
    /\ loc = [c \in Conns |-> NoLoc]
    /\ out = [c \in Conns |-> NoOut]
    /\ wire = [c \in Conns |-> <<>>]
    /\ framer = NoFramer
    /\ locks = NoLocks
    /\ gm = NoGm

\* Tokens the client of handle c puts in its requests: the one its LOGIN
\* returned, or none.
OwnTokens(c) ==
    {0} \cup {g_sessions[i].token :
                 i \in {j \in DOMAIN g_sessions : g_sessions[j].client_socket = c}}

NextPush ==
    \E c \in Conns :
        \/ Accept(c)
        \/ PeerClose(c)
        \/ \E r \in RecvEnds : WorkerExit(c, r)
        \/ Close(c)
        \/ SendChunk(c)
        \/ \E u \in NameInputs : LoginAuth(c, u, PwGood)
        \/ LoginCreate(c)
        \/ \E t \in OwnTokens(c), u \in NameInputs : PmChatStart(c, t, u)
        \/ PmChatSet(c)
        \/ \E t \in OwnTokens(c) : PmChatEnd(c, t)
        \/ PmChatClear(c)
        \/ \E t \in OwnTokens(c), u \in NameInputs, m \in Contents : PmSend(c, t, u, m)
        \/ PushCheck(c)
        \/ PushSocket(c)
        \/ PushWrite(c)

SpecPush == InitPush /\ [][NextPush]_vars

\* C2: the PUSH PM frame of a PM_SEND from S to R is written only to the
\* connection of an active session of R whose chat partner is S at the
\* moment of the write; no connection gets one when R is offline, is not in
\* chat mode, chats with someone else or has ended chat mode or its session.
C2_PushOnlyToChatPartner ==
    [][\A c \in Conns :
          PushWrite(c)
          => \E i \in DOMAIN g_sessions :
                /\ g_sessions[i].user_id = loc[c].peer_id
                /\ g_sessions[i].client_socket = loc[c].to_sock
                /\ g_sessions[i].chat_partner_id = loc[c].user_id]_vars

\* C3: no connection carries the bytes of a PUSH frame written by another
\* worker in between the bytes of a response its own worker is writing:
\* the chunks on a handle since the last frame boundary are of one frame.
C3_FramesContiguous == \A k \in Conns : ~Mixed(wire[k])

\* ------------------------------------------------------- group store
\* The calls the GROUP_* handlers make on the group store once
\* sessions_validate has returned the caller's user id, each taken whole
\* (groups_mutex); ret keeps the call and what it returned.
MaxGroups == 2

\* Values of group_id a request carries: the ids groups_create can return.
GroupIds == {time(t) : t \in 0..MaxTime}

\* The user ids sessions_validate returns once UserA and UserB are registered.
GroupCallers == {1, 2}

GroupsCreate(user_id, group_name) ==
    /\ Len(groups_db) < MaxGroups
    /\ \E r \in {groups_create(users_db, groups_db, group_members_db, now,
                                user_id, group_name)} :
         /\ groups_db' = r.groups
         /\ group_members_db' = r.members
         /\ ret' = Ret("GROUP_CREATE", user_id, r.group_id, group_name, r.rc, <<>>)
    /\ UNCHANGED <<gm, locks, framer, users_db, friends_db, pm_files, g_next_msg_id, msg_id_file,
                   g_sessions, dropped, now, draws, conn, pc, loc, out, wire>>

GroupsListMembers(user_id, group_id) ==
    /\ \E r \in {groups_list_members(users_db, group_members_db, user_id, group_id)} :
         ret' = Ret("GROUP_MEMBERS", user_id, group_id, <<>>, r.rc, r.out)
    /\ UNCHANGED <<gm, locks, framer, users_db, friends_db, pm_files, g_next_msg_id, msg_id_file,
                   groups_db, group_members_db, g_sessions, dropped, now, draws,
                   conn, pc, loc, out, wire>>

GroupsAddMember(user_id, group_id, username) ==
    /\ \E r \in {groups_add_member(users_db, groups_db, group_members_db,
                                    user_id, group_id, username)} :
         /\ group_members_db' = r.members
         /\ ret' = Ret("GROUP_ADD", user_id, group_id, username, r.rc, <<>>)
    /\ UNCHANGED <<gm, locks, framer, users_db, friends_db, pm_files, g_next_msg_id, msg_id_file,
                   groups_db, g_sessions, dropped, now, draws, conn, pc, loc, out,
                   wire>>

GroupsRemoveMember(user_id, group_id, username) ==
    /\ \E r \in {groups_remove_member(users_db, groups_db, group_members_db,
                                       user_id, group_id, username)} :
         /\ group_members_db' = r.members
         /\ ret' = Ret("GROUP_REMOVE", user_id, group_id, username, r.rc, <<>>)
    /\ UNCHANGED <<gm, locks, framer, users_db, friends_db, pm_files, g_next_msg_id, msg_id_file,
                   groups_db, g_sessions, dropped, now, draws, conn, pc, loc, out,
                   wire>>

GroupsLeave(user_id, group_id) ==
    /\ \E r \in {groups_leave(users_db, groups_db, group_members_db, user_id,
                               group_id)} :
         /\ group_members_db' = r.members
         /\ ret' = Ret("GROUP_LEAVE", user_id, group_id, <<>>, r.rc, <<>>)
    /\ UNCHANGED <<gm, locks, framer, users_db, friends_db, pm_files, g_next_msg_id, msg_id_file,
                   groups_db, g_sessions, dropped, now, draws, conn, pc, loc, out,
                   wire>>

\* handle_request, GROUP_ADD: the response for what groups_add_member returned.
GroupAddRsp(rc) ==
    IF rc = GROUP_OK THEN OkRsp(<<"status=added">>)
    ELSE IF rc = GROUP_ERR_NOT_FOUND THEN ErrRsp(404, "user_not_found")
    ELSE IF rc = GROUP_ERR_PERMISSION THEN ErrRsp(403, "not_group_owner")
    ELSE IF rc = GROUP_ERR_EXISTS THEN ErrRsp(409, "already_member")
    ELSE ErrRsp(500, "server_error")

\* handle_request, GROUP_REMOVE: the response for what groups_remove_member
\* returned.
GroupRemoveRsp(rc) ==
    IF rc = GROUP_OK THEN OkRsp(<<"status=removed">>)
    ELSE IF rc = GROUP_ERR_PERMISSION THEN ErrRsp(403, "not_group_owner")
    ELSE IF rc = GROUP_ERR_NOT_FOUND THEN ErrRsp(404, "member_not_found")
    ELSE ErrRsp(500, "server_error")

NextGroups ==
    \/ Tick
    \/ \E id \in GroupCallers :
        \/ \E n \in GroupNames : GroupsCreate(id, n)
        \/ \E g \in GroupIds :
            \/ GroupsListMembers(id, g)
            \/ GroupsLeave(id, g)
            \/ \E u \in {UserA, UserB, UserLong} :
                \/ GroupsAddMember(id, g, u)
                \/ GroupsRemoveMember(id, g, u)

SpecGroups == InitPush /\ [][NextGroups]_vars

\* C13: the records of the groups file carry strictly increasing group
\* ids, so two GROUP_CREATE calls that succeeded have returned different
\* ids and no two records share one.
C13_GroupIdsIncrease ==
    \A i, j \in 1..Len(groups_db) :
        i < j => sscanf_group(groups_db[i]).gid < sscanf_group(groups_db[j]).gid

\* C14: the owner named in a record of the groups file has a record in
\* the membership file for that group, whatever GROUP_LEAVE and
\* GROUP_REMOVE calls were made.
C14_OwnerIsMember ==
    \A i \in 1..Len(groups_db) :
        sscanf_group(groups_db[i]).n = 4
        => is_group_member(group_members_db, sscanf_group(groups_db[i]).gid,
                           sscanf_group(groups_db[i]).owner)

\* C15: no two lines of the membership file are records of the same user
\* in the same group.
C15_MemberPairsUnique ==
    \A i, j \in 1..Len(group_members_db) :
        (i # j /\ sscanf_member(group_members_db[i]).n = 2)
        => ~MemberLine(group_members_db[j], sscanf_member(group_members_db[i]).gid,
                       sscanf_member(group_members_db[i]).u)

\* The caller of the last store call wrote a record of the groups file
\* with the group id the call names.
CallerCreatedGroup ==
    is_group_owner(groups_db, ret.id,
                   groups_get_username_by_id(users_db, ret.user_id).name)

\* C16: a GROUP_ADD or GROUP_REMOVE by a caller who did not create the
\* group is answered 403 not_group_owner and leaves the membership file
\* as it was, and GROUP_MEMBERS returns the list to members only.
C16_OnlyOwnerChangesMembers ==
    /\ [](/\ (ret.op = "GROUP_ADD" /\ ~CallerCreatedGroup)
             => GroupAddRsp(ret.rc) = ErrRsp(403, "not_group_owner")
          /\ (ret.op = "GROUP_REMOVE" /\ ~CallerCreatedGroup)
             => GroupRemoveRsp(ret.rc) = ErrRsp(403, "not_group_owner")
          /\ (ret.op = "GROUP_MEMBERS" /\ ret.rc = GROUP_OK)
             => is_group_member(group_members_db, ret.id,
                                groups_get_username_by_id(users_db, ret.user_id).name))
    /\ [][\A id \in GroupCallers : \A g \in GroupIds : \A u \in {UserA, UserB, UserLong} :
            (/\ GroupsAddMember(id, g, u) \/ GroupsRemoveMember(id, g, u)
             /\ ~is_group_owner(groups_db, g,
                                groups_get_username_by_id(users_db, id).name))
            => group_members_db' = group_members_db]_vars

\* ------------------------------------------------ private message store
\* The calls the PM_* handlers make on the message store once
\* sessions_validate has returned the caller's user id, each taken whole
\* (pm_mutex); ret keeps the call and what it returned.
MaxLog == 3

\* Values of the content field: Base64 of "hi", the empty value of
\* "content=", and a value with '|' in it (the handler takes the field as
\* it comes).
PmContents == {<<"a", "G", "k", "=">>, <<>>, <<"a", "|", "5", "|">>}

PmCallers == {1, 2}

PmSendCall(user_id, to_username, content) ==
    /\ Len(pm_files) < MaxLog
    /\ \E r \in {pm_send(users_db, pm_files, g_next_msg_id, now, user_id,
                         to_username, content)} :
         /\ pm_files' = r.files
         /\ g_next_msg_id' = r.next
         /\ msg_id_file' = IF r.rc = PM_OK THEN r.next ELSE msg_id_file
         /\ ret' = Ret("PM_SEND", user_id, r.msg_id, to_username, r.rc, <<>>)
    /\ UNCHANGED <<gm, locks, framer, users_db, friends_db, groups_db, group_members_db, g_sessions,
                   dropped, now, draws, conn, pc, loc, out, wire>>

PmMarkReadCall(user_id, other_username) ==
    /\ \E junk \in ReadFlagJunk :
         pm_files' = pm_mark_read(users_db, pm_files, user_id, other_username, junk)
    /\ ret' = Ret("PM_MARK_READ", user_id, 0, other_username, PM_OK, <<>>)
    /\ UNCHANGED <<gm, locks, framer, users_db, friends_db, g_next_msg_id, msg_id_file, groups_db,
                   group_members_db, g_sessions, dropped, now, draws, conn, pc, loc,
                   out, wire>>

PmHistoryCall(user_id, other_username) ==
    /\ ret' = Ret("PM_HISTORY", user_id, 0, other_username, PM_OK,
                  pm_get_history(users_db, pm_files, user_id, other_username))
    /\ UNCHANGED <<gm, locks, framer, users_db, friends_db, pm_files, g_next_msg_id, msg_id_file,
                   groups_db, group_members_db, g_sessions, dropped, now, draws,
                   conn, pc, loc, out, wire>>

\* The process stops between two requests and main runs again: the files
\* stay, g_next_msg_id has its initializer (main does not call pm_init).
Restart ==
    /\ g_next_msg_id' = 1
    /\ ret' = Ret("RESTART", 0, 0, <<>>, "", <<>>)
    /\ UNCHANGED <<gm, locks, framer, users_db, friends_db, pm_files, msg_id_file, groups_db,
                   group_members_db, g_sessions, dropped, now, draws, conn, pc, loc,
                   out, wire>>

NextPm ==
    \E id \in PmCallers, u \in NameInputs :
        \/ \E content \in PmContents : PmSendCall(id, u, content)
        \/ PmMarkReadCall(id, u)
        \/ PmHistoryCall(id, u)

SpecPm == InitPush /\ [][NextPm]_vars

NextPmRestart == NextPm \/ Restart

SpecPmRestart == InitPush /\ [][NextPmRestart]_vars

\* The message id and the sender id pm_send wrote at the head of a line.
LineIds(line) == <<sscanf_pm(line).msg_id, sscanf_pm(line).from_id>>

\* C17: the message ids of the lines of the conversation logs are all
\* different, and a pm_send that succeeded has returned an id greater than
\* the id of every line written before it, restarts included.
C17_PmIdsNeverReused ==
    /\ \A i, j \in 1..Len(pm_files) :
          i < j => LineIds(pm_files[i].line)[1] < LineIds(pm_files[j].line)[1]
    /\ (ret.op = "PM_SEND" /\ ret.rc = PM_OK)
       => \A i \in 1..(Len(pm_files) - 1) : LineIds(pm_files[i].line)[1] < ret.id

\* The entries of a history that carry the id and the sender of a line.
EntriesOf(history, line, db) ==
    {k \in 1..Len(history) :
        /\ history[k][1] = LineIds(line)[1]
        /\ history[k][2] = get_username_by_id(db, LineIds(line)[2]).name}

\* C18: a PM_HISTORY by either user of a pair returns, for every line
\* pm_send has written to the log of the pair, exactly one entry with the
\* id of the line, attributed to its sender.
C18_HistoryHasEverySend ==
    ret.op = "PM_HISTORY"
    => \A i \in 1..Len(pm_files) :
          pm_files[i].file = get_pm_filepath(ret.user_id,
                                 get_user_id_by_username(users_db, ret.name))
          => Cardinality(EntriesOf(ret.out, pm_files[i].line, users_db)) = 1

\* C19: in every conversation log the lines stand in the order they were
\* sent, with strictly increasing ids, and a pm_mark_read keeps the number
\* of lines and, line by line, the file, the id and the sender.
C19_LogOrderKept ==
    /\ [](\A i, j \in 1..Len(pm_files) :
             (i < j /\ pm_files[i].file = pm_files[j].file)
             => LineIds(pm_files[i].line)[1] < LineIds(pm_files[j].line)[1])
    /\ [][\A id \in PmCallers : \A u \in NameInputs :
            PmMarkReadCall(id, u)
            => /\ Len(pm_files') = Len(pm_files)
               /\ \A i \in 1..Len(pm_files) :
                     /\ pm_files'[i].file = pm_files[i].file
                     /\ LineIds(pm_files'[i].line) = LineIds(pm_files[i].line)]_vars

\* A log of three lines, one of them not a record for the scan, on which
\* pm_mark_read has set a read flag.
C19_Witness ==
    /\ ret.op = "PM_MARK_READ"
    /\ Len(pm_files) = 3
    /\ \E i \in 1..3 : sscanf_pm(pm_files[i].line).n < 4
    /\ \E i \in 1..3 : /\ sscanf_pm(pm_files[i].line).n = 5
                       /\ sscanf_pm(pm_files[i].line).read_flag = 1

\* ------------------------------------------------------- request lines
\* Position of the first character from i on that is not a space (trim_left).
RECURSIVE trim_left(_, _)
trim_left(s, i) == IF i <= Len(s) /\ s[i] = " " THEN trim_left(s, i + 1) ELSE i

\* Number of characters from position i that the copy loops of
\* proto_parse_line store in a field of cap bytes.
RECURSIVE TokenLen(_, _, _)
TokenLen(s, i, cap) == IF i > Len(s) \/ s[i] = " " \/ cap <= 1 THEN 0
                       ELSE 1 + TokenLen(s, i + 1, cap - 1)

\* proto_parse_line once VERB was copied from position a, n characters long.
ParsedVerb(line, a, n, b) ==
    IF n = 0 \/ TokenLen(line, b, 32) = 0
    THEN [rc |-> -1, verb |-> <<>>, req_id |-> <<>>]
    ELSE [rc |-> 0, verb |-> SubSeq(line, a, a + n - 1),
          req_id |-> SubSeq(line, b, b + TokenLen(line, b, 32) - 1)]

ParseFrom(line, a) ==
    ParsedVerb(line, a, TokenLen(line, a, 32),
               trim_left(line, a + TokenLen(line, a, 32)))

\* proto_parse_line: [rc, verb, req_id].
proto_parse_line(line) == ParseFrom(line, trim_left(line, 1))

\* Lines a client sends, each ended by CRLF and far below the limits of
\* the framer: the empty line, lines without REQ_ID or without VERB, a
\* PING, a PING with two spaces and a payload, and a verb the server does
\* not know.
RequestLines ==
    {<<>>, <<" ">>, <<"P", "I", "N", "G">>, <<"P", "I", "N", "G", " ", "7">>,
     <<"P", "I", "N", "G", " ", " ", "8", " ", "x", "=", "1">>,
     <<"N", "O", "P", "E", " ", "9">>}

\* handle_request for the lines above: [rsp, req_id], the response and the
\* req_id it carries.
handle_request(line, m) ==
    IF m.rc # 0 THEN [rsp |-> ErrRsp(400, "bad_request"), req_id |-> <<"0">>]
    ELSE IF m.verb = <<"P", "I", "N", "G">>
    THEN [rsp |-> OkRsp(<<"pong=1">>), req_id |-> m.req_id]
    ELSE [rsp |-> ErrRsp(404, "unknown_command"), req_id |-> m.req_id]

\* framer_recv_line when the bytes of one line and its CRLF have arrived:
\* framer_pop_line returns 1 and the result is strlen(out).
framer_recv_line(line) == Len(line)

\* client_thread, one turn of its loop on a line that has arrived: the loop
\* ends when framer_recv_line returns 0, else handle_request runs.
RecvLine(c, line) ==
    /\ pc[c] = "read" /\ conn[c] = "open"
    /\ IF framer_recv_line(line) = 0
       THEN /\ g_sessions' = sessions_remove_by_socket(g_sessions, c)
            /\ dropped' = dropped \cup {g_sessions[i].user_id : i \in
                              {j \in DOMAIN g_sessions : g_sessions[j].client_socket = c}}
            /\ pc' = [pc EXCEPT ![c] = "close"]
            /\ UNCHANGED <<loc, out>>
       ELSE /\ \E h \in {handle_request(line, proto_parse_line(line))} :
                 /\ Respond(c, h.rsp, "read")
                 /\ loc' = [loc EXCEPT ![c] = [NoLoc EXCEPT !.req_id = h.req_id]]
            /\ UNCHANGED <<g_sessions, dropped>>
    /\ UNCHANGED <<gm, locks, framer, users_db, stores, now, draws, conn, wire>>

NextLine ==
    \E c \in Conns :
        \/ Accept(c)
        \/ PeerClose(c)
        \/ \E r \in RecvEnds : WorkerExit(c, r)
        \/ Close(c)
        \/ SendChunk(c)
        \/ \E line \in RequestLines : RecvLine(c, line)

SpecLine == Init /\ [][NextLine]_vars

\* C20: on every line that arrives the worker goes on to write one OK or
\* ERR response that carries the req_id of the line, 0 where the line has
\* none, returns to reading after it, and the connection stays open.
C20_OneResponsePerLine ==
    [][\A c \in Conns : \A line \in RequestLines :
          RecvLine(c, line)
          => /\ pc'[c] = "send"
             /\ out'[c].rsp.kind \in {"OK", "ERR"}
             /\ out'[c].after = "read"
             /\ loc'[c].req_id = IF proto_parse_line(line).rc = 0
                                 THEN proto_parse_line(line).req_id ELSE <<"0">>
             /\ conn'[c] = "open"]_vars

\* ------------------------------------------------------ framing.c, bytes
\* sizeof(line) in client_thread, sizeof(tmp) in framer_recv_line and the
\* guard of framer_recv_line.
OutCap == 4096
RecvChunk == 512
LineGuard == 65536

CR == "\r"
LF == "\n"

\* find_crlf: index of the first CR that an LF follows, 0 for NULL.
find_crlf(data) ==
    IF Len(data) >= 2 /\ \E i \in 1..(Len(data) - 1) : data[i] = CR /\ data[i + 1] = LF
    THEN CHOOSE i \in 1..(Len(data) - 1) :
             /\ data[i] = CR /\ data[i + 1] = LF
             /\ \A j \in 1..(i - 1) : ~(data[j] = CR /\ data[j + 1] = LF)
    ELSE 0

PoppedAt_drop(data, crlf, out_cap) ==
    IF crlf = 0 THEN [rc |-> 0, out |-> <<>>, data |-> data]
    ELSE IF (crlf - 1) + 1 > out_cap THEN [rc |-> -2, out |-> <<>>, data |-> data]
    ELSE [rc |-> 1, out |-> SubSeq(data, 1, crlf - 1), data |-> <<>>]

\* framer_pop_line once find_crlf has answered: [rc, out, data].
PoppedAt(data, crlf, out_cap) ==
    IF crlf = 0 THEN [rc |-> 0, out |-> <<>>, data |-> data]
    ELSE IF (crlf - 1) + 1 > out_cap THEN [rc |-> -2, out |-> <<>>, data |-> data]
    ELSE [rc |-> 1, out |-> SubSeq(data, 1, crlf - 1),
          data |-> SubSeq(data, crlf + 2, Len(data))]

framer_pop_line(data, out_cap) == PoppedAt(data, find_crlf(data), out_cap)

Min(a, b) == IF a < b THEN a ELSE b

\* The streams a client writes: one request; two requests; a lone CR and a
\* lone LF inside a line; a CR before the CRLF; an empty line before a
\* request; a request and an unterminated tail; the longest line that fits
\* the buffer of client_thread; a line one byte longer; 64 KiB and a byte
\* without CRLF.
Ping7 == <<"P", "I", "N", "G", " ", "7">>
Nope9 == <<"N", "O", "P", "E", " ", "9">>
Crlf == <<CR, LF>>

ShortStreams ==
    {Ping7 \o Crlf,
     Ping7 \o Crlf \o Nope9 \o Crlf,
     <<"x", CR, "x", LF>> \o Crlf,
     <<CR>> \o Crlf \o Ping7 \o Crlf,
     Crlf \o Ping7 \o Crlf,
     Ping7 \o Crlf \o <<"x">>}

LongStreams ==
    {Rep("x", OutCap - 1) \o Crlf \o Ping7 \o Crlf,
     Rep("x", OutCap) \o Crlf \o Ping7 \o Crlf,
     Rep("x", LineGuard + 1) \o <<>>}

Streams == ShortStreams \cup LongStreams

\* Sizes of the next write of the client: a short stream is cut anywhere up
\* to MaxSplit bytes or written to its end, a long one is written at once.
MaxSplit == 2

PacketSizes(stream, sent) ==
    {Len(stream) - sent} \cup
    (IF stream \in ShortStreams THEN 1..Min(MaxSplit, Len(stream) - sent) ELSE {})

\* accept() returns the connection of a client that will write stream.
Connect(stream) ==
    /\ framer.st = "idle"
    /\ framer' = [NoFramer EXCEPT !.stream = stream, !.st = "read"]
    /\ UNCHANGED <<gm, locks, users_db, stores, g_sessions, dropped, now, draws, conn, pc,
                   loc, out, wire>>

\* The client writes the next bytes of its stream.
ClientSend ==
    /\ framer.st # "idle" /\ ~framer.shut
    /\ framer.sent < Len(framer.stream)
    /\ \E n \in PacketSizes(framer.stream, framer.sent) :
           framer' = [framer EXCEPT !.sent = @ + n]
    /\ UNCHANGED <<gm, locks, users_db, stores, g_sessions, dropped, now, draws, conn, pc,
                   loc, out, wire>>

\* The client closes after its last byte.
ClientShutdown ==
    /\ framer.st # "idle" /\ ~framer.shut
    /\ framer.sent = Len(framer.stream)
    /\ framer' = [framer EXCEPT !.shut = TRUE]
    /\ UNCHANGED <<gm, locks, users_db, stores, g_sessions, dropped, now, draws, conn, pc,
                   loc, out, wire>>

\* client_thread once framer_recv_line has popped a line: r = strlen(out);
\* the loop ends on 0, else handle_request answers the line. On a
\* connection the client has reset send_all returns -1, which
\* handle_request and client_thread do not look at.
Delivered(fr, p) ==
    IF Len(p.out) = 0
    THEN [fr EXCEPT !.data = p.data, !.r = 0, !.st = "closed"]
    ELSE [fr EXCEPT !.data = p.data, !.r = Len(p.out),
                    !.lines = Append(@, p.out),
                    !.rsps = Append(@, handle_request(p.out, proto_parse_line(p.out)).rsp),
                    !.wfail = IF fr.reset /\ @ = 0 THEN Len(fr.lines) + 1 ELSE @]

\* framer_recv_line after recv has returned n > 0 bytes: they are appended
\* and the guard is checked.
Received(fr, n) ==
    IF Len(fr.data) + n > LineGuard
    THEN [fr EXCEPT !.data = @ \o SubSeq(fr.stream, fr.taken + 1, fr.taken + n),
                    !.taken = @ + n, !.reads = @ + 1, !.r = -2, !.st = "closed"]
    ELSE [fr EXCEPT !.data = @ \o SubSeq(fr.stream, fr.taken + 1, fr.taken + n),
                    !.taken = @ + n, !.reads = @ + 1]

\* One turn of the loop of framer_recv_line, and of the loop of
\* client_thread when framer_recv_line returns: pop a line; without one,
\* recv up to RecvChunk bytes, blocking while there are none and the client
\* has not closed; on a connection that was reset recv returns -1.
FramerTurn ==
    /\ framer.st = "read"
    /\ \E p \in {framer_pop_line(framer.data, OutCap)} :
          IF p.rc = 1 THEN framer' = Delivered(framer, p)
          ELSE IF p.rc < 0 THEN framer' = [framer EXCEPT !.r = p.rc, !.st = "closed"]
          ELSE IF framer.reset
          THEN framer' = [framer EXCEPT !.r = -1, !.st = "closed"]
          ELSE IF framer.sent > framer.taken
          THEN framer' = Received(framer, Min(RecvChunk, framer.sent - framer.taken))
          ELSE /\ framer.shut
               /\ framer' = [framer EXCEPT !.r = 0, !.st = "closed"]
    /\ UNCHANGED <<gm, locks, users_db, stores, g_sessions, dropped, now, draws, conn, pc,
                   loc, out, wire>>

\* recv fails (the connection was reset): framer_recv_line returns -1.
RecvFails ==
    /\ framer.st = "read"
    /\ framer_pop_line(framer.data, OutCap).rc = 0
    /\ framer' = [framer EXCEPT !.r = -1, !.st = "closed"]
    /\ UNCHANGED <<gm, locks, users_db, stores, g_sessions, dropped, now, draws, conn, pc,
                   loc, out, wire>>

NextFramer ==
    \/ \E stream \in Streams : Connect(stream)
    \/ ClientSend
    \/ ClientShutdown
    \/ FramerTurn
    \/ RecvFails

SpecFramer == Init /\ [][NextFramer]_vars

\* C21: framer_recv_line returns -2, and the worker closes for an over-long
\* line, only when more than 64 KiB have accumulated in the buffer without
\* a CRLF, and no response is written for the bytes that made it so.
C21_LongLineOnlyOver64K ==
    (framer.st = "closed" /\ framer.r = -2)
    => /\ Len(framer.data) > LineGuard
       /\ find_crlf(framer.data) = 0
       /\ Len(framer.rsps) = Len(framer.lines)

\* The lines of a byte stream, whatever the reads: it is cut at each CRLF,
\* up to the first line that is empty or does not fit the buffer of
\* client_thread, or to the unterminated tail.
NextCrlf(s, from) ==
    IF \E i \in from..(Len(s) - 1) : s[i] = CR /\ s[i + 1] = LF
    THEN CHOOSE i \in from..(Len(s) - 1) :
             /\ s[i] = CR /\ s[i + 1] = LF
             /\ \A j \in from..(i - 1) : ~(s[j] = CR /\ s[j + 1] = LF)
    ELSE 0

RECURSIVE LinesFrom(_, _)
LinesCut(s, from, i) ==
    IF i = 0 \/ i = from \/ (i - from) + 1 > OutCap THEN <<>>
    ELSE <<SubSeq(s, from, i - 1)>> \o LinesFrom(s, i + 2)

LinesFrom(s, from) == LinesCut(s, from, NextCrlf(s, from))

LinesOf(stream) == LinesFrom(stream, 1)

IsPrefix(s, t) == Len(s) <= Len(t) /\ s = SubSeq(t, 1, Len(s))

\* C22: the lines handed to handle_request are at every moment the first
\* lines of the byte stream, and all of them once the worker has ended
\* without a recv error, however the stream was cut into writes and reads;
\* each line has its response.
C22_LinesDependOnStreamOnly ==
    /\ IsPrefix(framer.lines, LinesOf(framer.stream))
    /\ (framer.st = "closed" /\ framer.r # -1
        => framer.lines = LinesOf(framer.stream))
    /\ Len(framer.rsps) = Len(framer.lines)

\* Two requests read one byte at a time have both been delivered.
C22_Witness ==
    /\ framer.stream = Ping7 \o Crlf \o Nope9 \o Crlf
    /\ framer.reads = Len(framer.stream)
    /\ framer.lines = <<Ping7, Nope9>>
    /\ framer.st = "closed"

\* The friendship store with three registered users: ann and bob invite
\* each other, and each of the three accepts, rejects, deletes and lists.
InitFriendStore ==
    /\ users_db = accounts_register(
                      accounts_register(
                          accounts_register(<<>>, UserA, PwGood, EmailShort, Salt0).db,
                          UserB, PwGood, EmailShort, Salt0).db,
                      UserLong, PwGood, EmailShort, Salt0).db
    /\ friends_db = <<>>
    /\ pm_files = <<>>
    /\ g_next_msg_id = 1
    /\ msg_id_file = 0
    /\ ret = NoRet
    /\ groups_db = <<>>
    /\ group_members_db = <<>>
    /\ g_sessions = <<>>
    /\ dropped = {}
    /\ now = 0
    /\ draws = 0
    /\ conn = [c \in Conns |-> "free"]
    /\ pc = [c \in Conns |-> "idle"]
    /\ loc = [c \in Conns |-> NoLoc]
    /\ out = [c \in Conns |-> NoOut]
    /\ wire = [c \in Conns |-> <<>>]
    /\ framer = NoFramer
    /\ locks = NoLocks
    /\ gm = NoGm

FriendNames == {UserA, UserB, UserLong}

NextFriendStore ==
    \/ \E id \in {1, 2}, u \in NameInputs : FriendsSendInvite(id, u)
    \/ \E id \in UserIds, u \in FriendNames :
        \/ FriendsAcceptInvite(id, u)
        \/ FriendsRejectInvite(id, u)
        \/ FriendsDelete(id, u)
    \/ \E id \in UserIds : FriendsList(id)

SpecFriendStore == InitFriendStore /\ [][NextFriendStore]_vars

\* The user has a session that has not expired at time t.
HasActiveSession(S, t, user_id) ==
    \E i \in DOMAIN S : S[i].user_id = user_id /\ ~Expired(S[i], t)

\* The list friends_list gives the user names the other exactly once, and
\* marks it online exactly when it has an active session.
ListsOnce(db, F, S, t, user_id, other) ==
    /\ TimesIn(friends_list(db, F, S, t, user_id, FriendListCap).out, other) = 1
    /\ \A e \in Range(friends_list(db, F, S, t, user_id, FriendListCap).out) :
           e.name = other
           => (e.online <=> HasActiveSession(S, t, get_user_id_by_username(db, other)))

\* C23: once B's FRIEND_ACCEPT naming A has returned OK (the PENDING edge
\* it promotes was stored by A's FRIEND_INVITE returning OK), the list of A
\* holds B exactly once and the list of B holds A exactly once, each marked
\* online exactly when that friend has an active session.
C23_AcceptedListedOnce ==
    [][\A id \in UserIds, u \in FriendNames :
          (ret'.rc = FRIEND_OK /\ FriendsAcceptInvite(id, u))
          => /\ ListsOnce(users_db', friends_db', g_sessions', now', id, u)
             /\ ListsOnce(users_db', friends_db', g_sessions', now',
                          get_user_id_by_username(users_db', u),
                          get_username_by_id(users_db', id).name)]_vars

\* The list of the user does not name the other.
NotListed(db, F, S, t, user_id, other) ==
    TimesIn(friends_list(db, F, S, t, user_id, FriendListCap).out, other) = 0

SettleCall(r, caller) ==
    r.op \in {"FRIEND_ACCEPT", "FRIEND_REJECT"} /\ caller.found

\* The call r of caller leaves the PENDING edge e alone unless the invitee
\* makes it naming the inviter, and returns FRIEND_ERR_NOT_FOUND (404
\* invite_not_found) when the inviter makes it naming the invitee or a
\* third user makes it naming the inviter.
SettledByInvitee(e, r, caller, F) ==
    /\ ~(caller.name = e.to /\ r.name = e.from) => e \in Range(F)
    /\ (\/ caller.name = e.from /\ r.name = e.to
        \/ caller.name \notin {e.from, e.to} /\ r.name = e.from)
       => r.rc = FRIEND_ERR_NOT_FOUND

\* C25: a PENDING edge A -> B is promoted or removed by an accept or reject
\* only when B makes it naming A; the same call made by A naming B, or by a
\* third user, returns FRIEND_ERR_NOT_FOUND and leaves the edge PENDING;
\* and no edge of the file has the status REJECTED.
C25_OnlyInviteeSettles ==
    [][/\ \A i \in 1..Len(friends_db) :
            (friends_db[i].status = "PENDING"
             /\ SettleCall(ret', get_username_by_id(users_db, ret'.user_id)))
            => SettledByInvitee(friends_db[i], ret',
                                get_username_by_id(users_db, ret'.user_id), friends_db')
       /\ \A j \in 1..Len(friends_db') : friends_db'[j].status # "REJECTED"]_vars

\* ------------------------------------------- verbs handle_request lacks
\* Verbs the clients of the repository send and the README lists that no
\* branch of handle_request compares msg.verb with.
UnhandledVerbs == {"DISCONNECT", "GM_SEND"}

\* handle_request on a well-formed line whose verb matches no branch: the
\* last statement answers 404 unknown_command and returns 0, and
\* client_thread reads the next line.  The token and the other fields of
\* the line are not looked at.
UnknownCommand(c, verb, token) ==
    /\ pc[c] = "read" /\ conn[c] = "open"
    /\ Respond(c, ErrRsp(404, "unknown_command"), "read")
    /\ loc' = [loc EXCEPT ![c] = [NoLoc EXCEPT !.verb = verb, !.token = token]]
    /\ UNCHANGED <<gm, locks, framer, users_db, stores, g_sessions, dropped, now, draws, conn, wire>>

\* The server starts on the files an earlier run has left: ann and bob are
\* registered, and the group files hold the lines that groups_create of ann
\* and her groups_add_member of bob write.
\* The group id is the time of its creation.
GroupChatId == time(0)

InitGroupChat ==
    /\ users_db = accounts_register(
                      accounts_register(<<>>, UserA, PwGood, EmailShort, Salt0).db,
                      UserB, PwGood, EmailShort, Salt0).db
    /\ friends_db = <<>>
    /\ pm_files = <<>>
    /\ g_next_msg_id = 1
    /\ msg_id_file = 0
    /\ ret = NoRet
    /\ groups_db = <<FormatGroupLine(GroupChatId, <<"g">>, UserA, GroupChatId)>>
    /\ group_members_db = <<FormatMemberLine(GroupChatId, UserA),
                            FormatMemberLine(GroupChatId, UserB)>>
    /\ g_sessions = <<>>
    /\ dropped = {}
    /\ now = 0
    /\ draws = 0
    /\ conn = [c \in Conns |-> "free"]
    /\ pc = [c \in Conns |-> "idle"]
    /\ loc = [c \in Conns |-> NoLoc]
    /\ out = [c \in Conns |-> NoOut]
    /\ wire = [c \in Conns |-> <<>>]
    /\ framer = NoFramer
    /\ locks = NoLocks
    /\ gm = NoGm

NextUnhandled ==
    \E c \in Conns :
        \/ Accept(c)
        \/ PeerClose(c)
        \/ \E r \in RecvEnds : WorkerExit(c, r)
        \/ Close(c)
        \/ SendAll(c)
        \/ \E u \in NameInputs : LoginAuth(c, u, PwGood)
        \/ LoginCreate(c)
        \/ \E t \in OwnTokens(c), verb \in UnhandledVerbs : UnknownCommand(c, verb, t)

SpecUnhandled == InitGroupChat /\ [][NextUnhandled]_vars

\* C26: a DISCONNECT request is answered OK, the session its token names
\* is no longer in the table, and the worker does not return to reading
\* after the response.
C26_DisconnectEndsWorker ==
    [][\A c \in Conns : \A t \in 0..MaxTokens :
          UnknownCommand(c, "DISCONNECT", t)
          => /\ out'[c].rsp.kind = "OK"
             /\ out'[c].after # "read"
             /\ (t # 0 => t \notin Tokens(g_sessions'))]_vars

\* The token names a session of a member of the group.
MemberToken(S, t, token, group_id) ==
    /\ sessions_validate(S, t, token).rc = SESS_OK
    /\ is_group_member(group_members_db, group_id,
                       groups_get_username_by_id(
                           users_db, sessions_validate(S, t, token).user_id).name)

Mutexes == {"accounts", "sessions", "friends", "groups", "pm"}

\* The place of a mutex in the order account, session, friendships,
\* groups, pm.
LockRank(mu) ==
    IF mu = "accounts" THEN 1 ELSE IF mu = "sessions" THEN 2
    ELSE IF mu = "friends" THEN 3 ELSE IF mu = "groups" THEN 4 ELSE 5

\* The store functions handle_request calls for a verb, in the order of
\* the branch when no call fails.
HandlerCalls ==
    [REGISTER |-> <<"accounts_register">>,
     LOGIN |-> <<"accounts_authenticate", "sessions_create">>,
     LOGOUT |-> <<"sessions_destroy">>,
     WHOAMI |-> <<"sessions_validate">>,
     FRIEND_INVITE |-> <<"sessions_validate", "friends_send_invite">>,
     FRIEND_ACCEPT |-> <<"sessions_validate", "friends_accept_invite">>,
     FRIEND_REJECT |-> <<"sessions_validate", "friends_reject_invite">>,
     FRIEND_PENDING |-> <<"sessions_validate", "friends_pending">>,
     FRIEND_LIST |-> <<"sessions_validate", "friends_list">>,
     FRIEND_DELETE |-> <<"sessions_validate", "friends_delete">>,
     GROUP_CREATE |-> <<"sessions_validate", "groups_create">>,
     GROUP_LIST |-> <<"sessions_validate", "groups_list">>,
     GROUP_MEMBERS |-> <<"sessions_validate", "groups_list_members">>,
     GROUP_ADD |-> <<"sessions_validate", "groups_add_member">>,
     GROUP_REMOVE |-> <<"sessions_validate", "groups_remove_member">>,
     GROUP_LEAVE |-> <<"sessions_validate", "groups_leave">>,
     PM_CHAT_START |-> <<"sessions_validate", "accounts_get_username",
                         "accounts_get_user_id", "sessions_set_chat_partner",
                         "pm_mark_read", "pm_get_history">>,
     PM_CHAT_END |-> <<"sessions_validate", "sessions_get_chat_partner",
                       "accounts_get_username", "pm_mark_read",
                       "sessions_set_chat_partner">>,
     PM_SEND |-> <<"sessions_validate", "pm_send", "accounts_get_user_id",
                   "sessions_is_chatting_with", "sessions_get_socket",
                   "accounts_get_username">>,
     PM_HISTORY |-> <<"sessions_validate", "pm_get_history">>,
     PM_CONVERSATIONS |-> <<"sessions_validate", "pm_get_conversations">>]

Verbs == DOMAIN HandlerCalls

\* The mutex a store function locks on entry and unlocks before it
\* returns; groups_list locks none.
MutexOf(fn) ==
    IF fn \in {"accounts_register", "accounts_authenticate", "accounts_get_username",
               "accounts_get_user_id"} THEN "accounts"
    ELSE IF fn \in {"sessions_create", "sessions_destroy", "sessions_validate",
                    "sessions_set_chat_partner", "sessions_get_chat_partner",
                    "sessions_is_chatting_with", "sessions_get_socket",
                    "sessions_is_online"} THEN "sessions"
    ELSE IF fn \in {"friends_send_invite", "friends_accept_invite", "friends_reject_invite",
                    "friends_pending", "friends_list", "friends_delete"} THEN "friends"
    ELSE IF fn \in {"groups_create", "groups_list_members", "groups_add_member",
                    "groups_remove_member", "groups_leave"} THEN "groups"
    ELSE IF fn \in {"pm_send", "pm_get_history", "pm_get_conversations", "pm_mark_read"}
    THEN "pm"
    ELSE "none"

LockOp(mu) == [op |-> "lock", mu |-> mu]
UnlockOp(mu) == [op |-> "unlock", mu |-> mu]

\* k calls of sessions_is_online.
RECURSIVE OnlineCalls(_)
OnlineCalls(k) ==
    IF k = 0 THEN <<>>
    ELSE <<LockOp("sessions"), UnlockOp("sessions")>> \o OnlineCalls(k - 1)

\* CallOps with the users file read through accounts_get_user_id inside
\* pm_mark_read.
CallOps_nested(fn, k) ==
    IF MutexOf(fn) = "none" THEN <<>>
    ELSE IF fn = "friends_list"
    THEN <<LockOp("friends")>> \o OnlineCalls(k) \o <<UnlockOp("friends")>>
    ELSE IF fn = "pm_mark_read"
    THEN <<LockOp("pm"), LockOp("accounts"), UnlockOp("accounts"), UnlockOp("pm")>>
    ELSE <<LockOp(MutexOf(fn)), UnlockOp(MutexOf(fn))>>

\* CallOps with sessions_destroy reading the friendship file under
\* g_sess_mutex.
CallOps_cycle(fn, k) ==
    IF MutexOf(fn) = "none" THEN <<>>
    ELSE IF fn = "friends_list"
    THEN <<LockOp("friends")>> \o OnlineCalls(k) \o <<UnlockOp("friends")>>
    ELSE IF fn = "sessions_destroy"
    THEN <<LockOp("sessions"), LockOp("friends"), UnlockOp("friends"), UnlockOp("sessions")>>
    ELSE <<LockOp(MutexOf(fn)), UnlockOp(MutexOf(fn))>>

\* The mutex calls of a store function; friends_list calls
\* sessions_is_online for each of the k ACCEPTED edges it lists, before it
\* unlocks friends_mutex.
CallOps(fn, k) ==
    IF MutexOf(fn) = "none" THEN <<>>
    ELSE IF fn = "friends_list"
    THEN <<LockOp("friends")>> \o OnlineCalls(k) \o <<UnlockOp("friends")>>
    ELSE <<LockOp(MutexOf(fn)), UnlockOp(MutexOf(fn))>>

\* The mutex calls of the store functions of a branch, in order.
RECURSIVE RequestOps(_, _, _)
RequestOps(calls, n, k) ==
    IF n = 0 THEN <<>>
    ELSE RequestOps(calls, n - 1, k) \o CallOps(calls[n], k)

\* Friends with an ACCEPTED edge that friends_list finds.
MaxFriends == 1

\* PM_CHAT_END of a session with no chat partner: the branch skips
\* accounts_get_username and pm_mark_read.
PmChatEndIdle ==
    <<"sessions_validate", "sessions_get_chat_partner", "sessions_set_chat_partner">>

BranchCalls(verb, chatting) ==
    IF verb = "PM_CHAT_END" /\ ~chatting THEN PmChatEndIdle ELSE HandlerCalls[verb]

\* handle_request enters the branch of a verb.
LockRequest(c, verb, chatting, k) ==
    /\ locks[c].ops = <<>>
    /\ locks' = [locks EXCEPT ![c] =
                    [ops |-> RequestOps(BranchCalls(verb, chatting),
                                        Len(BranchCalls(verb, chatting)), k),
                     held |-> <<>>, last |-> "none"]]
    /\ UNCHANGED <<gm, framer, users_db, stores, g_sessions, dropped, now, draws, conn, pc,
                   loc, out, wire>>

\* A check or a store call of the branch fails: the branch writes its
\* error response and returns without the calls that are left.
HandlerReturn(c) ==
    /\ locks[c].ops # <<>>
    /\ locks[c].held = <<>>
    /\ locks' = [locks EXCEPT ![c] = NoWorkerLocks]
    /\ UNCHANGED <<gm, framer, users_db, stores, g_sessions, dropped, now, draws, conn, pc,
                   loc, out, wire>>

Holds(c, mu) == \E i \in 1..Len(locks[c].held) : locks[c].held[i] = mu

\* pthread_mutex_lock returns once no thread holds the mutex.
MutexLock(c) ==
    /\ locks[c].ops # <<>>
    /\ Head(locks[c].ops).op = "lock"
    /\ \A d \in Conns : ~Holds(d, Head(locks[c].ops).mu)
    /\ locks' = [locks EXCEPT ![c] = [ops |-> Tail(@.ops),
                                      held |-> Append(@.held, Head(@.ops).mu),
                                      last |-> Head(@.ops).mu]]
    /\ UNCHANGED <<gm, framer, users_db, stores, g_sessions, dropped, now, draws, conn, pc,
                   loc, out, wire>>

\* The mutexes of held without mu.
RECURSIVE Without(_, _)
Without(held, mu) ==
    IF held = <<>> THEN <<>>
    ELSE IF Head(held) = mu THEN Tail(held)
    ELSE <<Head(held)>> \o Without(Tail(held), mu)

\* pthread_mutex_unlock; the response is written after the last unlock.
MutexUnlock(c) ==
    /\ locks[c].ops # <<>>
    /\ Head(locks[c].ops).op = "unlock"
    /\ locks' = [locks EXCEPT ![c] =
                    IF Len(@.ops) = 1 THEN NoWorkerLocks
                    ELSE [ops |-> Tail(@.ops), held |-> Without(@.held, Head(@.ops).mu),
                          last |-> @.last]]
    /\ UNCHANGED <<gm, framer, users_db, stores, g_sessions, dropped, now, draws, conn, pc,
                   loc, out, wire>>

NextLocks ==
    \E c \in Conns :
        \/ \E verb \in Verbs, chatting \in BOOLEAN, k \in 0..MaxFriends :
               LockRequest(c, verb, chatting, k)
        \/ HandlerReturn(c)
        \/ MutexLock(c)
        \/ MutexUnlock(c)

SpecLocks == Init /\ [][NextLocks]_vars

\* C28 as stated: no worker holds two of the mutexes at once, and the
\* mutexes a request locks are locked in the order account, session,
\* friendships, groups, pm.
C28_NoLockHeldAcrossLock ==
    [][\A c \in Conns :
          MutexLock(c)
          => /\ Len(locks'[c].held) <= 1
             /\ (locks[c].last # "none"
                 => LockRank(locks[c].last) <= LockRank(locks'[c].last))]_vars

\* C28 amended: a worker holds two mutexes at once only inside
\* friends_list, where it holds friends_mutex and locks g_sess_mutex; in
\* every other case it holds at most one, and no worker that holds
\* g_sess_mutex, g_accounts_mutex, groups_mutex or pm_mutex waits for
\* another mutex.
C28_OnlyFriendsListNests ==
    \A c \in Conns :
        /\ locks[c].held \in {<<>>, <<"friends", "sessions">>} \cup {<<mu>> : mu \in Mutexes}
        /\ (locks[c].held # <<>> /\ locks[c].held # <<"friends">>
            /\ locks[c].ops # <<>>)
           => Head(locks[c].ops).op = "unlock"

\* A worker is inside sessions_is_online under friends_list while another
\* worker waits for g_sess_mutex.
C28_Witness ==
    \E c, d \in Conns :
        /\ locks[c].held = <<"friends", "sessions">>
        /\ c # d /\ locks[d].held = <<>> /\ locks[d].ops # <<>>
        /\ Head(locks[d].ops) = LockOp("sessions")

\* ------------------------------------- messages.c pm_get_conversations
\* The ids other_id of the files <id1>_<id2>.txt of data/pm whose name
\* holds user_id.
PartnersOf(P, user_id) ==
    {IF P[i].file[1] = user_id THEN P[i].file[2] ELSE P[i].file[1] :
        i \in {k \in 1..Len(P) : P[k].file[1] = user_id \/ P[k].file[2] = user_id}}

\* The lines of the file of the pair counted as unread: four conversions
\* or more, from_id == other_id and read_flag == 0; junk is read_flag
\* where the scan did not assign it.
UnreadLines(P, user_id, other_id, junk) ==
    {i \in 1..Len(P) :
        /\ P[i].file = get_pm_filepath(user_id, other_id)
        /\ sscanf_pm(P[i].line).n >= 4
        /\ sscanf_pm(P[i].line).from_id = other_id
        /\ (IF sscanf_pm(P[i].line).n = 5 THEN sscanf_pm(P[i].line).read_flag
            ELSE junk) = 0}

\* The orders in which readdir may return the files.
DirOrders(S) ==
    {s \in [1..Cardinality(S) -> S] : \A x \in S : \E i \in 1..Cardinality(S) : s[i] = x}

\* One entry username:unread for every file whose other user is known.
RECURSIVE ConvEntries(_, _, _, _, _, _)
ConvEntries(db, P, user_id, junk, order, i) ==
    IF i = 0 THEN <<>>
    ELSE ConvEntries(db, P, user_id, junk, order, i - 1)
         \o (IF get_username_by_id(db, order[i]).found
             THEN <<<<get_username_by_id(db, order[i]).name,
                      Cardinality(UnreadLines(P, user_id, order[i], junk))>>>>
             ELSE <<>>)

\* pm_get_conversations with a buffer no run here fills: [rc, out].
pm_get_conversations(db, P, user_id, junk, order) ==
    IF ~get_username_by_id(db, user_id).found
    THEN [rc |-> PM_ERR_INTERNAL, out |-> <<>>]
    ELSE [rc |-> PM_OK, out |-> ConvEntries(db, P, user_id, junk, order, Len(order))]

PmConversationsCall(user_id) ==
    /\ \E junk \in ReadFlagJunk, order \in DirOrders(PartnersOf(pm_files, user_id)) :
         \E r \in {pm_get_conversations(users_db, pm_files, user_id, junk, order)} :
            ret' = Ret("PM_CONVERSATIONS", user_id, 0, <<>>, r.rc, r.out)
    /\ UNCHANGED <<gm, locks, framer, users_db, friends_db, pm_files, g_next_msg_id, msg_id_file,
                   groups_db, group_members_db, g_sessions, dropped, now, draws,
                   conn, pc, loc, out, wire>>

NextConv == NextPm \/ \E id \in PmCallers : PmConversationsCall(id)

SpecConv == InitPush /\ [][NextConv]_vars

\* The unread count a list of conversations gives for a user name, 0 when
\* the list has no entry of that name.
UnreadOf(list, name) ==
    IF \E i \in 1..Len(list) : list[i][1] = name
    THEN list[CHOOSE i \in 1..Len(list) : list[i][1] = name][2]
    ELSE 0

\* The count PM_CONVERSATIONS of viewer reports for partner on the files P.
Reported(P, viewer, partner, junk) ==
    UnreadOf(pm_get_conversations(users_db, P, viewer, junk, <<partner>>).out,
             get_username_by_id(users_db, partner).name)

\* C29: the unread count PM_CONVERSATIONS reports to viewer V for partner P
\* is 0 right after a pm_mark_read of V naming P (PM_CHAT_START,
\* PM_CHAT_END), is one more after every message P sends to V, and is left
\* as it was by a message V sends and by a pm_mark_read of P.
C29_UnreadCounts ==
    [][\A V \in PmCallers : \A P \in PmCallers \ {V} : \A junk \in ReadFlagJunk :
          /\ PmMarkReadCall(V, get_username_by_id(users_db, P).name)
             => Reported(pm_files', V, P, junk) = 0
          /\ (/\ ret'.rc = PM_OK
              /\ \E content \in PmContents :
                    PmSendCall(P, get_username_by_id(users_db, V).name, content))
             => Reported(pm_files', V, P, junk) = Reported(pm_files, V, P, junk) + 1
          /\ (\/ \E content \in PmContents, u \in NameInputs : PmSendCall(V, u, content)
              \/ PmMarkReadCall(P, get_username_by_id(users_db, V).name))
             => Reported(pm_files', V, P, junk) = Reported(pm_files, V, P, junk)]_vars

\* ------------------------------------------------- records of a PM log
\* The positions of '|' in a line, in ascending order.
Bars(line) ==
    LET S == {i \in 1..Len(line) : line[i] = "|"}
    IN  [k \in 1..Cardinality(S) |->
            CHOOSE i \in S : Cardinality({j \in S : j < i}) = k - 1]

\* The fields of the record pm_send wrote as a line: message id and sender
\* up to the first two bars, time and read flag after the last two, the
\* content between.
RecordOf(line) ==
    LET b == Bars(line)
        n == Len(b)
    IN  [msg_id |-> SubSeq(line, 1, b[1] - 1),
         from_id |-> SubSeq(line, b[1] + 1, b[2] - 1),
         content |-> SubSeq(line, b[2] + 1, b[n - 1] - 1),
         ts |-> SubSeq(line, b[n - 1] + 1, b[n] - 1),
         read_flag |-> SubSeq(line, b[n] + 1, Len(line) - 1)]

\* The record with its read flag set when other_id sent it.
ReadBy(rec, other_id) ==
    IF rec.from_id = FormatInt(other_id) THEN [rec EXCEPT !.read_flag = FormatInt(1)]
    ELSE rec

\* C30: pm_mark_read(viewer, other) sets the read flag of exactly the
\* records of the log of the pair that other sent, leaves the message id,
\* the sender, the content and the time of every record and the flags of
\* the viewer's records as they were, touches no other log, and a second
\* call changes nothing more.
C30_MarkReadExact ==
    [][\A V \in PmCallers : \A u \in NameInputs :
          PmMarkReadCall(V, u)
          => /\ Len(pm_files') = Len(pm_files)
             /\ \A i \in 1..Len(pm_files) :
                   /\ pm_files'[i].file = pm_files[i].file
                   /\ IF pm_files[i].file
                           = get_pm_filepath(V, get_user_id_by_username(users_db, u))
                      THEN RecordOf(pm_files'[i].line)
                               = ReadBy(RecordOf(pm_files[i].line),
                                        get_user_id_by_username(users_db, u))
                      ELSE pm_files'[i].line = pm_files[i].line
             /\ \A junk \in ReadFlagJunk :
                   pm_mark_read(users_db, pm_files', V, u, junk) = pm_files']_vars

\* ------------------------------------------ PM_HISTORY and its limit
\* atoi(3) of a field value: an optional '-' and the decimal digits that
\* follow, 0 when there is none.
atoi(s) ==
    IF s # <<>> /\ s[1] = "-" THEN 0 - ScanInt(s, 2).val ELSE ScanInt(s, 1).val

\* What kv_get(msg.payload, "limit", ...) finds: no such key, or its value.
NoLimit == [given |-> FALSE, str |-> <<>>]
LimitOf(str) == [given |-> TRUE, str |-> str]

LimitInputs ==
    {NoLimit} \cup {LimitOf(s) : s \in {<<"0">>, <<"1">>, <<"2">>, <<"1", "0", "0">>,
                                       <<"1", "0", "1">>, <<"-", "1">>, <<"x">>}}

DefaultLimit == 50
MaxLimit == 100

\* history_limit with a limit out of range brought to the nearest bound.
history_limit_clamped(lim) ==
    IF ~lim.given THEN DefaultLimit
    ELSE IF atoi(lim.str) <= 0 THEN 1
    ELSE IF atoi(lim.str) > MaxLimit THEN MaxLimit
    ELSE atoi(lim.str)

\* The limit the PM_HISTORY branch passes to pm_get_history.
history_limit(lim) ==
    IF ~lim.given THEN DefaultLimit
    ELSE IF atoi(lim.str) <= 0 \/ atoi(lim.str) > MaxLimit THEN DefaultLimit
    ELSE atoi(lim.str)

\* The loop "for (i = start; i >= 0 && count < limit; i--)" over the
\* records read, with a buffer no run here fills.
pm_get_history_limit(db, P, user_id, other_username, limit) ==
    IF get_user_id_by_username(db, other_username) < 0
    THEN [rc |-> PM_ERR_NOT_FOUND, out |-> <<>>]
    ELSE [rc |-> PM_OK,
          out |-> SubSeq(pm_get_history(db, P, user_id, other_username), 1,
                         Min(limit, Len(pm_get_history(db, P, user_id, other_username))))]

\* The branch PM_HISTORY once sessions_validate has given user_id; ret.id
\* keeps the limit passed to pm_get_history.
PmHistoryLimitCall(user_id, other_username, lim) ==
    /\ \E r \in {pm_get_history_limit(users_db, pm_files, user_id, other_username,
                                      history_limit(lim))} :
          ret' = Ret("PM_HISTORY", user_id, history_limit(lim), other_username, r.rc, r.out)
    /\ UNCHANGED <<gm, locks, framer, users_db, friends_db, pm_files, g_next_msg_id, msg_id_file,
                   groups_db, group_members_db, g_sessions, dropped, now, draws,
                   conn, pc, loc, out, wire>>

NextHist ==
    \E id \in PmCallers, u \in NameInputs :
        \/ \E content \in Contents : PmSendCall(id, u, content)
        \/ \E lim \in LimitInputs : PmHistoryLimitCall(id, u, lim)

SpecHist == InitPush /\ [][NextHist]_vars

\* The positions in P of the lines of the log of the pair that scan as
\* records, the latest first.
RecordsLatestFirst(P, user_id, other_id) ==
    LET S == {i \in 1..Len(P) : /\ P[i].file = get_pm_filepath(user_id, other_id)
                                /\ sscanf_pm(P[i].line).n >= 4}
    IN  [k \in 1..Cardinality(S) |->
            CHOOSE i \in S : Cardinality({j \in S : j > i}) = k - 1]

\* A history holds the latest records of the log, the newest first, and
\* no more than L of them.
NewestFirstAtMost(history, P, user_id, other_id, L) ==
    LET recs == RecordsLatestFirst(P, user_id, other_id)
    IN  /\ Len(history) = Min(L, Len(recs))
        /\ \A k \in 1..Len(history) :
              history[k][1] = sscanf_pm(P[recs[k]].line).msg_id

\* C31 as stated: PM_HISTORY returns the newest records first and at most
\* L of them, L being the limit asked for brought into 1..100 (1 for a
\* limit below 1, 100 for one above 100) and 50 when none is given.
C31_HistoryLimitClamped ==
    [][\A lim \in LimitInputs :
          (/\ ret'.op = "PM_HISTORY" /\ ret'.rc = PM_OK
           /\ ret'.id = history_limit(lim)
           /\ PmHistoryLimitCall(ret'.user_id, ret'.name, lim))
          => NewestFirstAtMost(ret'.out, pm_files, ret'.user_id,
                               get_user_id_by_username(users_db, ret'.name),
                               history_limit_clamped(lim))]_vars

\* C31 amended: L is the limit asked for when it is in 1..100, and 50 when
\* it is not or none is given.
C31_HistoryLimitOrDefault ==
    [][\A lim \in LimitInputs :
          (/\ ret'.op = "PM_HISTORY" /\ ret'.rc = PM_OK
           /\ ret'.id = history_limit(lim)
           /\ PmHistoryLimitCall(ret'.user_id, ret'.name, lim))
          => NewestFirstAtMost(ret'.out, pm_files, ret'.user_id,
                               get_user_id_by_username(users_db, ret'.name),
                               IF lim.given /\ atoi(lim.str) \in 1..MaxLimit
                               THEN atoi(lim.str) ELSE DefaultLimit)]_vars

\* PM_HISTORY with a limit of 2 has returned the two latest of three
\* records.
C31_Witness ==
    /\ ret.op = "PM_HISTORY" /\ ret.id = 2 /\ ret.rc = PM_OK
    /\ Len(ret.out) = 2
    /\ Len(RecordsLatestFirst(pm_files, ret.user_id,
                              get_user_id_by_username(users_db, ret.name))) = 3

\* ------------------------------------------------------- group_messages.c
GM_OK == "GM_OK"
GM_ERR_NOT_MEMBER == "GM_ERR_NOT_MEMBER"
GM_ERR_NOT_FOUND == "GM_ERR_NOT_FOUND"
GM_ERR_INTERNAL == "GM_ERR_INTERNAL"

\* fprintf(f, "%d|%d|%s|%ld\n", msg_id, from_user_id, content_base64, ts)
FormatGmLine(msg_id, from_id, content, ts) ==
    FormatInt(msg_id) \o <<"|">> \o FormatInt(from_id) \o <<"|">> \o content
        \o <<"|">> \o FormatInt(ts) \o <<"\n">>

GmLine(group_id, line) == [group |-> group_id, line |-> line]

\* group_exists: a line of groups.db on which sscanf(line, "%d|", &gid)
\* assigns group_id.
group_exists(G, group_id) ==
    \E i \in 1..Len(G) : ScanInt(G[i], 1).ok /\ ScanInt(G[i], 1).val = group_id

\* gm_is_member: the name of user_id stands in group_members.db with
\* group_id (sscanf(line, "%d|%63s", &gid, member) == 2).
gm_is_member(db, Mb, user_id, group_id) ==
    /\ accounts_get_username(db, user_id).found
    /\ \E i \in 1..Len(Mb) :
          MemberLine(Mb[i], group_id, accounts_get_username(db, user_id).name)

\* strtok(3) from position i of s: the delimiters at i are skipped, the
\* token runs to the next delimiter, the scan goes on behind it.
RECURSIVE SkipDelims(_, _, _)
SkipDelims(s, i, D) ==
    IF i <= Len(s) /\ s[i] \in D THEN SkipDelims(s, i + 1, D) ELSE i

RECURSIVE TokLen(_, _, _)
TokLen(s, i, D) == IF i > Len(s) \/ s[i] \in D THEN 0 ELSE 1 + TokLen(s, i + 1, D)

strtok(s, i, D) ==
    LET b == SkipDelims(s, i, D)
        n == TokLen(s, b, D)
    IN  [ok |-> b <= Len(s), val |-> SubSeq(s, b, b + n - 1), next |-> b + n + 1]

\* The parse of a line in gm_get_history: three tokens cut at '|', a
\* fourth cut at '|' or '\n'; ok when all four are there.
GmScan(line) ==
    LET t1 == strtok(line, 1, {"|"})
        t2 == strtok(line, t1.next, {"|"})
        t3 == strtok(line, t2.next, {"|"})
        t4 == strtok(line, t3.next, {"|", "\n"})
    IN  IF ~t1.ok \/ ~t2.ok \/ ~t3.ok \/ ~t4.ok
        THEN [ok |-> FALSE, msg_id |-> 0, from_id |-> 0, content |-> <<>>, ts |-> 0]
        ELSE [ok |-> TRUE, msg_id |-> atoi(t1.val), from_id |-> atoi(t2.val),
              content |-> t3.val, ts |-> atoi(t4.val)]

\* Lines gm_get_history reads into msgs at most.
GmMaxRead == 1000

\* The positions in F of the lines of the file of group_id that parse, in
\* file order, the first GmMaxRead of them.
GmRead(F, group_id) ==
    LET S == {i \in 1..Len(F) : F[i].group = group_id /\ GmScan(F[i].line).ok}
        all == [k \in 1..Cardinality(S) |->
                   CHOOSE i \in S : Cardinality({j \in S : j < i}) = k - 1]
    IN  SubSeq(all, 1, Min(GmMaxRead, Len(all)))

Unknown == <<"u", "n", "k", "n", "o", "w", "n">>

\* One entry msg_id:from_username:content:ts.
GmEntry(db, r) ==
    <<r.msg_id,
      IF accounts_get_username(db, r.from_id).found
      THEN accounts_get_username(db, r.from_id).name ELSE Unknown,
      r.content, r.ts>>

\* The loop "for (i = start; i < count; i++)" with start = count - limit,
\* 0 when that is negative, and a buffer no run here fills.
GmEntries(db, F, msgs, limit) ==
    [k \in 1..(Len(msgs) - Max(Len(msgs) - limit, 0)) |->
        GmEntry(db, GmScan(F[msgs[Max(Len(msgs) - limit, 0) + k]].line))]

\* gm_get_history: [rc, out].
gm_get_history(db, G, Mb, F, user_id, group_id, limit) ==
    IF ~group_exists(G, group_id) THEN [rc |-> GM_ERR_NOT_FOUND, out |-> <<>>]
    ELSE IF ~gm_is_member(db, Mb, user_id, group_id)
    THEN [rc |-> GM_ERR_NOT_MEMBER, out |-> <<>>]
    ELSE [rc |-> GM_OK, out |-> GmEntries(db, F, GmRead(F, group_id), limit)]

\* Values of content_base64: Base64 of "hi", and the empty string.
GmContents == {<<"a", "G", "k", "=">>, <<>>}

\* gm_send up to pthread_mutex_lock: the content, the group and the
\* membership are checked with no mutex held.
GmSendCheck(user_id, group_id, content) ==
    /\ Len(gm.files) < MaxLog
    /\ \A p \in gm.pend : p.from # user_id
    /\ IF content = <<>>
       THEN /\ ret' = Ret("GM_SEND", user_id, 0, <<>>, GM_ERR_INTERNAL, <<>>)
            /\ gm' = gm
       ELSE IF ~group_exists(groups_db, group_id)
       THEN /\ ret' = Ret("GM_SEND", user_id, 0, <<>>, GM_ERR_NOT_FOUND, <<>>)
            /\ gm' = gm
       ELSE IF ~gm_is_member(users_db, group_members_db, user_id, group_id)
       THEN /\ ret' = Ret("GM_SEND", user_id, 0, <<>>, GM_ERR_NOT_MEMBER, <<>>)
            /\ gm' = gm
       ELSE /\ ret' = Ret("GM_SEND", user_id, group_id, <<>>, "checked", <<>>)
            /\ gm' = [gm EXCEPT !.pend = @ \cup {[from |-> user_id, group |-> group_id,
                                                  content |-> content]}]
    /\ UNCHANGED <<locks, framer, users_db, friends_db, pm_files, g_next_msg_id, msg_id_file,
                   groups_db, group_members_db, g_sessions, dropped, now, draws,
                   conn, pc, loc, out, wire>>

\* gm_send under gm_mutex: the record is appended with the next id.
GmSendAppend(p) ==
    /\ p \in gm.pend
    /\ gm' = [files |-> Append(gm.files,
                               GmLine(p.group, FormatGmLine(gm.next, p.from, p.content,
                                                            time(now)))),
              next |-> gm.next + 1,
              pend |-> gm.pend \ {p}]
    /\ ret' = Ret("GM_SEND", p.from, gm.next, <<>>, GM_OK, <<>>)
    /\ UNCHANGED <<locks, framer, users_db, friends_db, pm_files, g_next_msg_id, msg_id_file,
                   groups_db, group_members_db, g_sessions, dropped, now, draws,
                   conn, pc, loc, out, wire>>

GmLimits == {1, 2, 50}

GmHistoryCall(user_id, group_id, limit) ==
    /\ \E r \in {gm_get_history(users_db, groups_db, group_members_db, gm.files,
                                user_id, group_id, limit)} :
          ret' = Ret("GM_HISTORY", user_id, limit, <<>>, r.rc, r.out)
    /\ UNCHANGED <<gm, locks, framer, users_db, friends_db, pm_files, g_next_msg_id,
                   msg_id_file, groups_db, group_members_db, g_sessions, dropped, now,
                   draws, conn, pc, loc, out, wire>>

NextGm ==
    \/ \E id \in GroupCallers, content \in GmContents : GmSendCheck(id, GroupChatId, content)
    \/ \E p \in gm.pend : GmSendAppend(p)
    \/ \E id \in GroupCallers, limit \in GmLimits : GmHistoryCall(id, GroupChatId, limit)

SpecGm == InitGroupChat /\ [][NextGm]_vars

\* C32: a gm_get_history of a member returns the min(limit, n) latest of
\* the n records of the log of the group, the newest first; the record of
\* the latest gm_send is among them.
C32_GroupHistoryNewestFirst ==
    (ret.op = "GM_HISTORY" /\ ret.rc = GM_OK)
    => LET n == Cardinality({i \in 1..Len(gm.files) : gm.files[i].group = GroupChatId})
       IN  /\ Len(ret.out) = Min(ret.id, n)
           /\ \A k \in 1..Len(ret.out) : ret.out[k][1] = gm.next - k

\* ------------------------------------------- write errors of a response
\* The client resets the connection (it closes with bytes of the server
\* unread, or its host goes away): what it has sent and the worker has not
\* yet received is lost, and send on the socket fails from now on.
ClientReset ==
    /\ framer.st = "read" /\ ~framer.reset
    /\ framer' = [framer EXCEPT !.reset = TRUE, !.shut = TRUE]
    /\ UNCHANGED <<gm, locks, users_db, stores, g_sessions, dropped, now, draws, conn, pc,
                   loc, out, wire>>

NextReset == NextFramer \/ ClientReset

SpecReset == Init /\ [][NextReset]_vars

\* C33: the worker reads a line, handles it and reads again, and once the
\* write of a response has failed it handles no further line: the line
\* whose response could not be written is the last one handed to
\* handle_request.
C33_WriteErrorEndsWorker ==
    /\ Len(framer.rsps) = Len(framer.lines)
    /\ framer.wfail # 0 => Len(framer.lines) = framer.wfail

\* ------------------------------------------- sessions and their sockets
\* C34: every session of the registry is bound to a handle that is open
\* and whose worker has not left its loop: sessions_remove_by_socket runs
\* before close, so accept never returns a handle a session is bound to.
C34_SessionsOnOpenSockets ==
    \A i \in DOMAIN g_sessions :
        /\ conn[g_sessions[i].client_socket] # "free"
        /\ pc[g_sessions[i].client_socket] \notin {"idle", "close"}

\* Both users have lost a session at the exit of a worker, and every
\* handle is open again with its worker reading and no session bound.
C34_Witness ==
    /\ dropped = {1, 2}
    /\ g_sessions = <<>>
    /\ \A c \in Conns : conn[c] = "open" /\ pc[c] = "read"

\* C35: the PUSH PM line of a PM_SEND to R that reaches a connection
\* reaches the one the session of R is bound to when send is called,
\* whatever R's worker and main have done since the sender's worker
\* called sessions_is_chatting_with and sessions_get_socket.
C35_PushReachesRecipientOnly ==
    [][\A c \in Conns :
          (PushWrite(c) /\ conn[loc[c].to_sock] # "free")
          => \E i \in DOMAIN g_sessions :
                /\ g_sessions[i].user_id = loc[c].peer_id
                /\ g_sessions[i].client_socket = loc[c].to_sock]_vars

\* ------------------------------------------------ LOGIN answered with ERR
\* The LOGIN step of worker c that writes an ERR response: the 401 of
\* accounts_authenticate, or the 409 / 500 of sessions_create.
LoginFails(c) ==
    /\ pc'[c] = "send"
    /\ out'[c].rsp.kind = "ERR"
    /\ \/ pc[c] = "login_create" /\ LoginCreate(c)
       \/ pc[c] = "read" /\ \E u \in NameInputs, p \in PwInputs : LoginAuth(c, u, p)

\* C36 as stated: a LOGIN answered with an error leaves the session
\* registry unchanged; a session bound to the requesting connection stays
\* active.
C36_FailedLoginKeepsRegistry ==
    [][\A c \in Conns : LoginFails(c) => g_sessions' = g_sessions]_vars

\* C36 as amended: a LOGIN answered with 401 leaves the session registry
\* unchanged; a LOGIN answered with 409 or 500 leaves no session bound to
\* the requesting connection and no expired session, and leaves every other
\* session as it was.
C36_FailedLoginEffect ==
    [][\A c \in Conns :
          LoginFails(c)
          => IF out'[c].rsp.code = 401 THEN g_sessions' = g_sessions
             ELSE /\ \A i \in DOMAIN g_sessions' :
                        /\ i \in DOMAIN g_sessions
                        /\ g_sessions'[i] = g_sessions[i]
                        /\ g_sessions[i].client_socket # c
                        /\ Live(g_sessions[i])
                  /\ \A i \in DOMAIN g_sessions \ DOMAIN g_sessions' :
                        g_sessions[i].client_socket = c \/ ~Live(g_sessions[i])]_vars

\* A worker is writing 409 already_logged_in with two tokens issued at one
\* clock value, no session removed by a worker's exit, and one session left
\* in the registry, bound to the other connection.
C36_Witness ==
    \E c \in Conns :
        /\ pc[c] = "send" /\ out[c].rsp.code = 409 /\ loc[c].verb = "LOGIN"
        /\ draws = 2 /\ now = 0 /\ dropped = {}
        /\ Cardinality(DOMAIN g_sessions) = 1
        /\ \A i \in DOMAIN g_sessions :
               /\ g_sessions[i].client_socket # c
               /\ loc[g_sessions[i].client_socket].verb = "LOGIN"

\* ------------------------------------------- tokens and connections
\* The step of worker c that answers a LOGOUT or WHOAMI carrying token with
\* OK.
TokenHonoured(c, token) ==
    /\ pc[c] = "read"
    /\ out'[c].rsp.kind = "OK"
    /\ loc'[c].token = token
    /\ \/ loc'[c].verb = "LOGOUT" /\ Logout(c, token)
       \/ loc'[c].verb = "WHOAMI" /\ Whoami(c, token)

\* C37 as stated: a request carrying a valid token is honoured only on the
\* connection the session of the token is bound to.
C37_TokenBoundToConnection ==
    [][\A c \in Conns, token \in ReqTokens :
          TokenHonoured(c, token)
          => \E i \in DOMAIN g_sessions :
                /\ g_sessions[i].token = token
                /\ g_sessions[i].client_socket = c]_vars

\* C37 as amended: a LOGOUT or WHOAMI is honoured only when the registry
\* holds a session with its token, on whichever connection it arrives;
\* WHOAMI needs the session not to be expired and answers its user id,
\* LOGOUT removes that session and no other.
C37_TokenHonouredAnywhere ==
    [][\A c \in Conns, token \in ReqTokens :
          TokenHonoured(c, token)
          => \E i \in DOMAIN g_sessions :
                /\ g_sessions[i].token = token
                /\ IF loc'[c].verb = "WHOAMI"
                   THEN /\ Live(g_sessions[i])
                        /\ out'[c].rsp.msg = <<"user_id", g_sessions[i].user_id>>
                        /\ i \in DOMAIN g_sessions'
                   ELSE /\ i \notin DOMAIN g_sessions'
                        /\ \A j \in DOMAIN g_sessions \ {i} :
                              j \in DOMAIN g_sessions'
                              /\ g_sessions'[j] = g_sessions[j]]_vars

\* A worker is writing OK user_id=... for a WHOAMI whose token belongs to
\* the session bound to the other connection.
C37_Witness ==
    \E c \in Conns :
        /\ pc[c] = "send" /\ out[c].rsp.kind = "OK" /\ loc[c].verb = "WHOAMI"
        /\ \E i \in DOMAIN g_sessions :
               /\ g_sessions[i].token = loc[c].token
               /\ g_sessions[i].client_socket # c
               /\ conn[g_sessions[i].client_socket] = "open"

\* ----------------------------------------------- mutexes, termination
\* A thread that holds a mutex runs on to its pthread_mutex_unlock, and a
\* thread waiting in pthread_mutex_lock gets the mutex when it is free
\* again and again.
SpecLocksFair ==
    /\ SpecLocks
    /\ \A c \in Conns : SF_vars(MutexLock(c)) /\ WF_vars(MutexUnlock(c))

NextGmMembers ==
    \/ \E id \in GroupCallers, content \in GmContents : GmSendCheck(id, GroupChatId, content)
    \/ \E p \in gm.pend : GmSendAppend(p)
    \/ \E id \in GroupCallers :
        \/ GroupsLeave(id, GroupChatId)
        \/ \E u \in {UserA, UserB} :
            \/ GroupsAddMember(id, GroupChatId, u)
            \/ GroupsRemoveMember(id, GroupChatId, u)

SpecGmMembers == InitGroupChat /\ [][NextGmMembers]_vars

\* C39: every record of the log of a group is appended while its sender is
\* a member of the group: after a GROUP_REMOVE or GROUP_LEAVE of the sender
\* has returned OK, and until the sender is added again, no gm_send of the
\* sender appends a record.
C39_AppendOnlyByMembers ==
    [][\A p \in gm.pend :
          GmSendAppend(p)
          => gm_is_member(users_db, group_members_db, p.from, p.group)]_vars

\* ------------------------------------- error results and the store files
\* The friendship and group calls of the handlers, made by users 1 and 2
\* and by an id no record of the users file carries, on the names of the
\* two users and a name that is not registered, and on the group of
\* InitGroupChat and an id no record of the groups file carries.
StoreGroupIds == {GroupChatId, time(MaxTime)}

NextStoreOps ==
    \E id \in UserIds :
        \/ \E u \in FriendNames :
            \/ FriendsSendInvite(id, u)
            \/ FriendsAcceptInvite(id, u)
            \/ FriendsRejectInvite(id, u)
            \/ FriendsDelete(id, u)
        \/ \E n \in GroupNames \cup {<<>>} : GroupsCreate(id, n)
        \/ \E g \in StoreGroupIds :
            \/ GroupsLeave(id, g)
            \/ \E u \in FriendNames :
                \/ GroupsAddMember(id, g, u)
                \/ GroupsRemoveMember(id, g, u)

SpecStoreOps == InitGroupChat /\ [][NextStoreOps]_vars

\* C40: a friendship or group call that returns an error result (Self,
\* NotFound, Exists, Permission or Internal) leaves the friendship file, the
\* groups file and the members file as they were before the call; only
\* calls that return Ok change a store.
C40_ErrorsLeaveStores ==
    [][ret'.rc \notin {FRIEND_OK, GROUP_OK}
       => /\ friends_db' = friends_db
          /\ groups_db' = groups_db
          /\ group_members_db' = group_members_db]_vars

\* The owner's GROUP_LEAVE has returned GROUP_ERR_SELF with the owner's
\* record in the members file, next to an ACCEPTED edge in the friendship
\* file.
C40_Witness ==
    /\ ret.op = "GROUP_LEAVE" /\ ret.rc = GROUP_ERR_SELF
    /\ is_group_member(group_members_db, ret.id,
                       groups_get_username_by_id(users_db, ret.user_id).name)
    /\ \E i \in 1..Len(friends_db) : friends_db[i].status = "ACCEPTED"

====
